---------------------------- MODULE Spec2Model ----------------------------
(***************************************************************************)
(* The catalog scraper of src/scraper.py as a state machine: main() walks  *)
(* the listing pages of the site, scrapes each detail page, resolves its   *)
(* unique_id, reconciles it into final_db, recomputes the series           *)
(* aggregates and writes db.json and series_db.json.                       *)
(*                                                                         *)
(* Text is a sequence of one-character strings, so that the regular        *)
(* expressions of the source are modelled by what they match.  The two     *)
(* Malayalam spellings of "Season" in the source are each one symbol.      *)
(* A Python value that may be None is a set: {} is None, {x} is x.         *)
(* A Python dict is the sequence of its (key, value) items in insertion    *)
(* order.                                                                  *)
(***************************************************************************)
EXTENDS Integers, Sequences, FiniteSets, TLC

(***************************************************************************)
(* Bounds of the model.                                                    *)
(***************************************************************************)
\* the longest feed of releases a site lists
MaxFeed == 3
\* listing entries per listing page of the site
PageSize == 2
\* scraper runs in sequence in one behaviour
MaxRuns == 2
\* the two settings of SCRAPER_MAX_PAGES the runs are checked with
LowCeiling == 2
HighCeiling == 8

(***************************************************************************)
(* Python values.                                                          *)
(***************************************************************************)
None == {}
Some(x) == {x}
Unwrap(v) == CHOOSE x \in v : TRUE

Min(S) == CHOOSE x \in S : \A y \in S : x <= y

(***************************************************************************)
(* Characters.                                                             *)
(***************************************************************************)
\* the word "Season" in Malayalam, first spelling (chillu n)
ML_SEASON == "ml_season"
\* the word "Season" in Malayalam, second spelling (n, virama, joiner)
ML_SEASON_ALT == "ml_season_alt"

Digits == {"0", "1", "2", "3", "4", "5", "6", "7", "8", "9"}
Whitespace == {" ", "\t", "\n"}

DigitVal ==
    ("0" :> 0) @@ ("1" :> 1) @@ ("2" :> 2) @@ ("3" :> 3) @@ ("4" :> 4) @@
    ("5" :> 5) @@ ("6" :> 6) @@ ("7" :> 7) @@ ("8" :> 8) @@ ("9" :> 9)

DigitChar == <<"0", "1", "2", "3", "4", "5", "6", "7", "8", "9">>

LowerOf ==
    ("A" :> "a") @@ ("B" :> "b") @@ ("E" :> "e") @@ ("M" :> "m") @@
    ("N" :> "n") @@ ("O" :> "o") @@ ("S" :> "s") @@ ("X" :> "x")

\* str.lower() and re.IGNORECASE, one character
Lower(c) == IF c \in DOMAIN LowerOf THEN LowerOf[c] ELSE c

LowerStr(s) == [i \in 1..Len(s) |-> Lower(s[i])]

\* int(digits)
RECURSIVE ParseInt(_)
ParseInt(ds) ==
    IF ds = <<>> THEN 0
    ELSE 10 * ParseInt(SubSeq(ds, 1, Len(ds) - 1)) + DigitVal[ds[Len(ds)]]

\* str(n) of a non-negative int
RECURSIVE IntToStr(_)
IntToStr(n) ==
    IF n < 10 THEN <<DigitChar[n + 1]>>
    ELSE IntToStr(n \div 10) \o <<DigitChar[(n % 10) + 1]>>

(***************************************************************************)
(* Pieces of regular expressions.                                          *)
(***************************************************************************)
\* the end (exclusive) of the longest run of characters of C from index i
RECURSIVE SpanEnd(_, _, _)
SpanEnd(s, i, C) ==
    IF i <= Len(s) /\ s[i] \in C THEN SpanEnd(s, i + 1, C) ELSE i

\* the literal lit at index i of s, case-sensitive
LitAt(s, i, lit) ==
    /\ i >= 1
    /\ i + Len(lit) - 1 <= Len(s)
    /\ \A k \in 1..Len(lit) : s[i + k - 1] = lit[k]

\* the lower-case literal lit at index i of s under re.IGNORECASE
LitAtCI(s, i, lit) == LitAt(LowerStr(s), i, lit)

\* `lit in s`
Contains(s, lit) == \E i \in 1..Len(s) : LitAt(s, i, lit)

\* str.strip()
RECURSIVE RStrip(_)
RStrip(s) ==
    IF s # <<>> /\ s[Len(s)] \in Whitespace
    THEN RStrip(SubSeq(s, 1, Len(s) - 1)) ELSE s

Strip(s) == LET j == SpanEnd(s, 1, Whitespace) IN RStrip(SubSeq(s, j, Len(s)))

\* re.sub(r'\s+', ' ', s)
RECURSIVE CollapseSpace(_)
CollapseSpace(s) ==
    IF s = <<>> THEN <<>>
    ELSE IF s[1] \in Whitespace
         THEN <<" ">> \o CollapseSpace(SubSeq(s, SpanEnd(s, 1, Whitespace), Len(s)))
         ELSE <<s[1]>> \o CollapseSpace(SubSeq(s, 2, Len(s)))

SEASON == <<"s", "e", "a", "s", "o", "n">>
SERIES == <<"s", "e", "r", "i", "e", "s">>

(***************************************************************************)
(* Helper functions of scraper.py.                                         *)
(***************************************************************************)
\* clean_text: None or "" gives ""
clean_text(text) ==
    IF text = None \/ Unwrap(text) = <<>> THEN <<>>
    ELSE CollapseSpace(Strip(Unwrap(text)))

\* re.search(r'tt\d+', url): the match at index i, <<>> when there is none
TtAt(url, i) ==
    IF LitAt(url, i, <<"t", "t">>) /\ SpanEnd(url, i + 2, Digits) > i + 2
    THEN SubSeq(url, i, SpanEnd(url, i + 2, Digits) - 1)
    ELSE <<>>

\* r'tt\d*': an id pattern that asks for no digit
extract_imdb_id_loose(url) ==
    IF url = None \/ Unwrap(url) = <<>> THEN None
    ELSE LET u == Unwrap(url)
             I == {i \in 1..Len(u) : LitAt(u, i, <<"t", "t">>)}
         IN  IF I = {} THEN None
             ELSE Some(SubSeq(u, Min(I), SpanEnd(u, Min(I) + 2, Digits) - 1))

extract_imdb_id(url) ==
    IF url = None \/ Unwrap(url) = <<>> THEN None
    ELSE LET u == Unwrap(url)
             I == {i \in 1..Len(u) : TtAt(u, i) # <<>>}
         IN  IF I = {} THEN None ELSE Some(TtAt(u, Min(I)))

\* re.search(r'\((\d{4})\)', title): group 1 at index i
YearAt(title, i) ==
    IF /\ i + 5 <= Len(title)
       /\ title[i] = "("
       /\ \A k \in 1..4 : title[i + k] \in Digits
       /\ title[i + 5] = ")"
    THEN SubSeq(title, i + 1, i + 4)
    ELSE <<>>

extract_year(title) ==
    LET I == {i \in 1..Len(title) : YearAt(title, i) # <<>>}
    IN  IF I = {} THEN None ELSE Some(YearAt(title, Min(I)))

\* group 1 of word\s*(\d+) at index i, where the word ends before index j
DigitsAfter(title, j) ==
    LET k == SpanEnd(title, j, Whitespace)
    IN  SubSeq(title, k, SpanEnd(title, k, Digits) - 1)

\* r'Season\s*(\d+)', re.IGNORECASE
SeasonWordAt(title, i) ==
    IF LitAtCI(title, i, SEASON) THEN DigitsAfter(title, i + 6) ELSE <<>>

\* the two Malayalam patterns, r'<word>\s*(\d+)'
MlWordAt(title, i, word) ==
    IF title[i] = word THEN DigitsAfter(title, i + 1) ELSE <<>>

\* r'S0?(\d+)', re.IGNORECASE: 0? is greedy and gives the 0 back when no digit follows it
SAbbrevAt(title, i) ==
    IF Lower(title[i]) # "s" THEN <<>>
    ELSE IF /\ i + 2 <= Len(title)
            /\ title[i + 1] = "0"
            /\ title[i + 2] \in Digits
         THEN SubSeq(title, i + 2, SpanEnd(title, i + 2, Digits) - 1)
         ELSE SubSeq(title, i + 1, SpanEnd(title, i + 1, Digits) - 1)

\* the patterns list of extract_season_info, in its order
PatternAt(p, title, i) ==
    CASE p = 1 -> SeasonWordAt(title, i)
      [] p = 2 -> MlWordAt(title, i, ML_SEASON)
      [] p = 3 -> SAbbrevAt(title, i)
      [] p = 4 -> MlWordAt(title, i, ML_SEASON_ALT)

\* re.search(patterns[p], title, re.IGNORECASE): group 1 of the leftmost match
PatternSearch(p, title) ==
    LET I == {i \in 1..Len(title) : PatternAt(p, title, i) # <<>>}
    IN  IF I = {} THEN <<>> ELSE PatternAt(p, title, Min(I))

\* r'\s+Season\s+\d|\s+<ml_season>\s+\d' matches at index i
SplitMarkAt(title, i) ==
    /\ title[i] \in Whitespace
    /\ LET j == SpanEnd(title, i, Whitespace)
       IN  \/ /\ LitAtCI(title, j, SEASON)
              /\ j + 6 <= Len(title)
              /\ title[j + 6] \in Whitespace
              /\ LET m == SpanEnd(title, j + 6, Whitespace)
                 IN  m <= Len(title) /\ title[m] \in Digits
           \/ /\ j <= Len(title)
              /\ title[j] = ML_SEASON
              /\ j + 1 <= Len(title)
              /\ title[j + 1] \in Whitespace
              /\ LET m == SpanEnd(title, j + 1, Whitespace)
                 IN  m <= Len(title) /\ title[m] \in Digits

\* re.split(..., title, 1, re.IGNORECASE)[0].strip()
SplitSeriesName(title) ==
    LET I == {i \in 1..Len(title) : SplitMarkAt(title, i)}
    IN  IF I = {} THEN Strip(title) ELSE Strip(SubSeq(title, 1, Min(I) - 1))

\* a keyword test that knows the word "season" alone
HasSeasonKeyword(title) ==
    \/ Contains(LowerStr(title), SEASON)
    \/ Contains(LowerStr(title), <<ML_SEASON>>)
    \/ Contains(LowerStr(title), <<ML_SEASON_ALT>>)

\* line 54: any(keyword in title.lower() for keyword in [...])
HasSeriesKeyword(title) ==
    \/ Contains(LowerStr(title), SEASON)
    \/ Contains(LowerStr(title), SERIES)
    \/ Contains(LowerStr(title), <<ML_SEASON>>)
    \/ Contains(LowerStr(title), <<ML_SEASON_ALT>>)

extract_season_info(title) ==
    LET P == {p \in 1..4 : PatternSearch(p, title) # <<>>}
        is_series == P # {} \/ HasSeriesKeyword(title)
        season_number ==
            IF P # {} THEN ParseInt(PatternSearch(Min(P), title)) ELSE 1
    IN  IF ~is_series
        THEN [is_series |-> FALSE, season_number |-> None, series_name |-> None]
        ELSE [is_series |-> TRUE,
              season_number |-> Some(season_number),
              series_name |-> Some(SplitSeriesName(title))]


(***************************************************************************)
(* Python dicts: final_db, series_grouping, series_db.                     *)
(***************************************************************************)
Keys(d) == [i \in 1..Len(d) |-> d[i].key]

\* `k in d`
HasKey(d, k) == \E i \in 1..Len(d) : d[i].key = k

\* d[k]
DictGet(d, k) == d[CHOOSE i \in 1..Len(d) : d[i].key = k].value

\* d[k] = v: the value of an existing key is replaced in place, a new key goes last
DictSet(d, k, v) ==
    IF HasKey(d, k)
    THEN [i \in 1..Len(d) |-> IF d[i].key = k THEN [key |-> k, value |-> v] ELSE d[i]]
    ELSE Append(d, [key |-> k, value |-> v])

\* r[f] = v on a record dict
SetField(r, f, v) ==
    [g \in DOMAIN r \cup {f} |-> IF g = f THEN v ELSE r[g]]

(***************************************************************************)
(* The site.  Its releases are listed most recent first, PageSize to a     *)
(* listing page; a listing page is named by its index, the first one being *)
(* RELEASES_URL.  After the last listing page comes what tail says.        *)
(***************************************************************************)
VARIABLES
    feed,               \* the detail-page hrefs the listing pages show, in order
    tail,               \* what the last listing page's "next" link leads to
    MAX_PAGES,          \* SCRAPER_MAX_PAGES, read at import
    db_json,            \* the file db.json: None when there is no such file
    db_backup,          \* the file db.json.backup
    series_json,        \* the file series_db.json
    series_backup,      \* the file series_db.json.backup
    run,                \* the number of the scraper run in progress
    pc,                 \* where main() is
    final_db,
    current_page_url,
    newly_added_count,
    page_num,
    list_soup,
    entry_idx,          \* the position of the for loop in entries
    new_on_this_page,
    detail_url,
    post_details,
    unique_id,
    outcome,            \* how the last iteration of the for loop ended
    series_db,
    db_file,            \* what open() and json.load make of db.json
    ids_at_page_start,  \* history: len(final_db) when the for loop began
    listing_fetches,    \* history: the listing pages get_soup was asked for in this run
    slept_since_detail, \* history: the sleeps since the last detail-page fetch of this run
    slept_since_listing, \* history: the sleeps since the last listing-page fetch of this run
    proc_pc,            \* where each of two concurrent scraper processes is
    mem,                \* the final_db of each of them
    shared_files,       \* the files the two processes share
    inserted,           \* history: the unique_ids a process inserted as new
    overlapped,         \* history: a process loaded while the other was running
    results,            \* the relevance-ordered results search_content gave the handler
    seasons_for_this_series, \* the dict the search handler builds from them
    reply_markup,       \* the keyboard of the handler's reply, None when it is no season selector
    disk,               \* the four files as the save step finds and leaves them
    save_at,            \* the file the save step is at, and its step on that file
    to_save,            \* the final_db and series_db the save step writes
    rename_failed,      \* history: os.rename of db.json raised in this save step
    now,                \* datetime.now(), in seconds
    user_last_request,  \* bot.py: user id -> the time is_rate_limited stored for it
    last_admitted,      \* history: user id -> the time of its last request that was not limited
    reply,              \* the user, time and reply of the last handle_search
    env,                \* app.py: TOKEN and WEBHOOK_SECRET as read from the environment
    tracked_users,      \* app.py: the set of user ids add_user filled
    sent,               \* the methods send_telegram_message posted to the Bot API, in order
    http_response,      \* the secret and the status of the last request to /telegram
    task_pc,            \* task -> where its download_and_upload_subtitle is
    status_message,     \* task -> the edits and deletions sent for its status message, in order
    error_occurred,     \* task -> the local error_occurred of its download_and_upload_subtitle
    failure,            \* history: task -> what went wrong in it, if anything
    given_title,        \* a title handed to extract_season_info
    season_info,        \* what extract_season_info returned for it
    responses,          \* what the server answers to successive requests
    requests_made,      \* the requests get_soup has sent
    soup_returned,      \* what get_soup returned
    raised              \* the exception that left get_soup, if any

vars ==
    <<feed, tail, MAX_PAGES, db_json, db_backup, series_json, series_backup,
      run, pc, final_db, current_page_url, newly_added_count, page_num,
      list_soup, entry_idx, new_on_this_page, detail_url, post_details,
      unique_id, outcome, series_db, db_file, ids_at_page_start,
      listing_fetches, slept_since_detail, slept_since_listing, proc_pc, mem,
      shared_files, inserted, overlapped, results, seasons_for_this_series,
      reply_markup, disk, save_at, to_save, rename_failed, now,
      user_last_request, last_admitted, reply, env, tracked_users, sent,
      http_response, task_pc, status_message, error_occurred, failure,
      given_title, season_info, responses, requests_made, soup_returned,
      raised>>

(***************************************************************************)
(* The variables beside those of main(), by the call they belong to.       *)
(***************************************************************************)
\* extract_season_info called alone
title_call == <<given_title, season_info>>

NoTitleCall ==
    /\ given_title = <<>>
    /\ season_info = None

\* get_soup called alone
fetch_call == <<responses, requests_made, soup_returned, raised>>

NoFetchCall ==
    /\ responses = <<>>
    /\ requests_made = 0
    /\ soup_returned = None
    /\ raised = None

\* two scraper processes started side by side
runs_call == <<proc_pc, mem, shared_files, inserted, overlapped>>

NoConcurrentRuns ==
    /\ proc_pc = <<>>
    /\ mem = <<>>
    /\ shared_files = <<>>
    /\ inserted = {}
    /\ overlapped = FALSE

\* the search branch of handle_telegram_message called alone
search_call == <<results, seasons_for_this_series, reply_markup>>

NoSearchCall ==
    /\ results = <<>>
    /\ seasons_for_this_series = <<>>
    /\ reply_markup = None

\* the save step of main() taken operation by operation
save_call == <<disk, save_at, to_save, rename_failed>>

NoSaveCall ==
    /\ disk = <<>>
    /\ save_at = <<>>
    /\ to_save = <<>>
    /\ rename_failed = FALSE

\* the rate limiting of bot.py
limit_call == <<now, user_last_request, last_admitted, reply>>

NoLimitCall ==
    /\ now = 0
    /\ user_last_request = <<>>
    /\ last_admitted = <<>>
    /\ reply = None

\* the /telegram endpoint of app.py
webhook_call == <<env, tracked_users, sent, http_response>>

NoWebhookCall ==
    /\ env = <<>>
    /\ tracked_users = {}
    /\ sent = <<>>
    /\ http_response = None

\* the download tasks of app.py
task_call == <<task_pc, status_message, error_occurred, failure>>

NoTaskCall ==
    /\ task_pc = <<>>
    /\ status_message = <<>>
    /\ error_occurred = <<>>
    /\ failure = <<>>

\* all of them
calls == <<title_call, fetch_call, runs_call, search_call, save_call, limit_call, webhook_call, task_call>>

\* no such call is made
NoCalls ==
    /\ NoTitleCall
    /\ NoFetchCall
    /\ NoConcurrentRuns
    /\ NoSearchCall
    /\ NoSaveCall
    /\ NoLimitCall
    /\ NoWebhookCall
    /\ NoTaskCall

\* the history of the time.sleep calls
delays == <<slept_since_detail, slept_since_listing>>

site == <<feed, tail, MAX_PAGES>>
files == <<db_json, db_backup, series_json, series_backup>>
locals == <<list_soup, entry_idx, new_on_this_page, detail_url, post_details,
            unique_id, outcome>>

\* an article of a listing page that has no h2.entry-title link
NO_LINK == "-"

\* detail pages: a film, three seasons of a series, a page that names no
\* IMDb id, a page that cannot be scraped
ListedUrls == {"a", "c", "d", "e", "f", "g"}

\* those, and a page that has an IMDb link and no title element
DetailUrls == ListedUrls \cup {"h"}

\* "M (2020)"
TitleA == <<"M", " ", "(", "2", "0", "2", "0", ")">>
\* "Ab Season 1"
TitleC == <<"A", "b", " ", "S", "e", "a", "s", "o", "n", " ", "1">>
\* " AB  Season 2" as the page holds it, upper case and loosely spaced
TitleD == <<" ", "A", "B", " ", " ", "S", "e", "a", "s", "o", "n", " ", "2">>
\* "X"
TitleF == <<"X">>

ImdbUrl(n) == <<"i", "/", "t", "t", n, "/">>
\* an imdb.com link that carries no title id
ImdbHome == <<"i", "/", "t", "t", "/">>

\* what the selectors of scrape_detail_page find in a fetched detail page;
\* a href of None on the IMDb button is a button without href; found holds the
\* fields whose cascade (details table, then the text patterns) finds a value
OkPage(h1, imdb, found) == [h1 |-> h1, imdb |-> imdb, found |-> found]

\* the documents a fetch of a detail url can give: None is a failed fetch
DetailDocs(url) ==
    CASE url = "a" ->
            {Some(OkPage(Some(TitleA), Some(Some(ImdbUrl("1"))),
                         [director |-> "Dir A"]))}
      [] url = "c" ->
            {Some(OkPage(Some(TitleC), Some(Some(ImdbUrl("2"))),
                         [genre |-> "Drama"]))}
      [] url = "d" ->
            {Some(OkPage(Some(TitleD), Some(Some(ImdbUrl("2"))),
                         [genre |-> "Drama", director |-> "Dir D"]))}
      [] url = "e" ->
            {Some(OkPage(Some(TitleC), Some(Some(ImdbUrl("3"))),
                         [genre |-> "Drama"]))}
      [] url = "f" ->
            {Some(OkPage(Some(TitleF), None, [genre |-> "Drama"])),
             Some(OkPage(None, Some(Some(ImdbHome)), [genre |-> "Drama"]))}
      [] url = "g" ->
            {None, Some(OkPage(Some(TitleA), Some(None), [director |-> "Dir A"]))}
      [] url = "h" ->
            {Some(OkPage(None, Some(Some(ImdbUrl("4"))), [genre |-> "Drama"]))}

Tails == {"end", "loop", "empty", "fail"}

NPages == (Len(feed) + PageSize - 1) \div PageSize

RELEASES_URL == 1

\* get_soup of a listing url, with what main() selects from it
ListingDoc(url) ==
    IF url \in 1..NPages
    THEN Some([entries |->
                  SubSeq(feed, (url - 1) * PageSize + 1,
                         IF url * PageSize < Len(feed) THEN url * PageSize ELSE Len(feed)),
               next |->
                  IF url < NPages THEN Some(url + 1)
                  ELSE CASE tail = "end" -> None
                         [] tail = "loop" -> Some(RELEASES_URL)
                         [] OTHER -> Some(NPages + 1)])
    ELSE IF tail = "fail" THEN None
         ELSE Some([entries |-> <<>>, next |-> None])


(***************************************************************************)
(* scrape_detail_page and the reconciliation of main().                    *)
(***************************************************************************)
\* the fields main() fills in on a record it already holds
UPDATE_FIELDS == {"director", "genre", "msone_release", "certification"}

\* the fields of field_mappings this model carries
FIELD_NAMES == UPDATE_FIELDS \cup {"language"}

UNKNOWN_TITLE ==
    <<"U", "n", "k", "n", "o", "w", "n", " ", "T", "i", "t", "l", "e">>

\* an except clause that hands back the details gathered before the error
scrape_detail_page_partial(url, doc) ==
    IF doc = None THEN None
    ELSE LET soup == Unwrap(doc)
             title == IF soup.h1 # None THEN clean_text(soup.h1) ELSE UNKNOWN_TITLE
             info == extract_season_info(title)
         IN  Some([source_url |-> url, title |-> title, year |-> extract_year(title),
                   is_series |-> info.is_series,
                   season_number |-> info.season_number,
                   series_name |-> info.series_name])

\* the details dict of a fetched document (scraped_at, the wall clock, and the
\* poster, synopsis and download fields are left out); None when the fetch
\* failed or the extraction raised
scrape_detail_page(url, doc) ==
    IF doc = None THEN None
    ELSE LET soup == Unwrap(doc)
             title == IF soup.h1 # None THEN clean_text(soup.h1) ELSE UNKNOWN_TITLE
             info == extract_season_info(title)
             dom == {"source_url", "title", "year", "is_series", "season_number",
                     "series_name"}
                    \cup (IF soup.imdb # None THEN {"imdbURL"} ELSE {})
                    \cup (FIELD_NAMES \cap DOMAIN soup.found)
         IN  IF soup.imdb = Some(None) THEN None
             ELSE Some([k \in dom |->
                     CASE k = "source_url" -> url
                       [] k = "title" -> title
                       [] k = "year" -> extract_year(title)
                       [] k = "is_series" -> info.is_series
                       [] k = "season_number" -> info.season_number
                       [] k = "series_name" -> info.series_name
                       [] k = "imdbURL" -> Unwrap(Unwrap(soup.imdb))
                       [] OTHER -> Some(soup.found[k])])

\* a scrape that gives up on a document without a title element
ScrapedTitled ==
    [url \in DetailUrls |->
        {IF doc # None /\ Unwrap(doc).h1 = None THEN None
         ELSE scrape_detail_page(url, doc) : doc \in DetailDocs(url)}]

\* scrape_detail_page(url) for each detail url: every result a fetch can give
Scraped ==
    [url \in DetailUrls |-> {scrape_detail_page(url, doc) : doc \in DetailDocs(url)}]

\* post_details.get('imdbURL')
ImdbUrlOf(details) ==
    IF "imdbURL" \in DOMAIN details THEN Some(details.imdbURL) ELSE None

\* the legacy key of src/scrapper.py: the IMDb id alone
LegacyUniqueId(imdb_id, details) == imdb_id

\* f"{imdb_id}-S{season_number}" if is_series else imdb_id
UniqueId(imdb_id, details) ==
    IF details.is_series
    THEN imdb_id \o <<"-", "S">> \o IntToStr(Unwrap(details.season_number))
    ELSE imdb_id

\* the fields of a held record that the new details fill in
Fillable(old, details) ==
    {f \in UPDATE_FIELDS :
        /\ f \notin DOMAIN old \/ old[f] = None
        /\ f \in DOMAIN details /\ details[f] # None}

\* the held record after the loop over UPDATE_FIELDS
FillMissing(old, details) ==
    [f \in DOMAIN old \cup Fillable(old, details) |->
        IF f \in Fillable(old, details) THEN details[f] ELSE old[f]]

(***************************************************************************)
(* The post-processing of main().                                          *)
(***************************************************************************)
\* entry.get('is_series') and entry.get('series_name')
IsGrouped(entry) ==
    /\ "is_series" \in DOMAIN entry /\ entry.is_series
    /\ "series_name" \in DOMAIN entry
    /\ entry.series_name # None /\ Unwrap(entry.series_name) # <<>>

\* lines 534-537: one item of final_db is put into series_grouping
GroupItem(g, item) ==
    LET base_name == Unwrap(item.value.series_name)
    IN  IF ~IsGrouped(item.value) THEN g
        ELSE IF HasKey(g, base_name)
             THEN DictSet(g, base_name, Append(DictGet(g, base_name), item.key))
             ELSE DictSet(g, base_name, <<item.key>>)

\* step 1: series_grouping after the first n items of db
RECURSIVE SeriesGrouping(_, _)
SeriesGrouping(db, n) ==
    IF n = 0 THEN <<>>
    ELSE CHOOSE r \in {GroupItem(g, db[n]) : g \in {SeriesGrouping(db, n - 1)}} : TRUE

\* total_seasons of a group
TotalSeasons(season_ids) == Len(season_ids)

\* final_db[uid]['total_seasons'] += total where the record has a count already
SetTotalAdding(d, uid, total) ==
    IF HasKey(d, uid)
    THEN DictSet(d, uid, SetField(DictGet(d, uid), "total_seasons",
             IF "total_seasons" \in DOMAIN DictGet(d, uid)
             THEN DictGet(d, uid).total_seasons + total ELSE total))
    ELSE d

\* lines 542-544: final_db[uid]['total_seasons'] = total
SetTotal(d, uid, total) ==
    IF HasKey(d, uid)
    THEN DictSet(d, uid, SetField(DictGet(d, uid), "total_seasons", total))
    ELSE d

\* step 2, inner loop: the first n ids of a group get total
RECURSIVE SetTotals(_, _, _, _)
SetTotals(db, season_ids, n, total) ==
    IF n = 0 THEN db
    ELSE CHOOSE r \in {SetTotal(d, season_ids[n], total) :
                          d \in {SetTotals(db, season_ids, n - 1, total)}} : TRUE

\* step 2: db after the first n groups
RECURSIVE UpdateTotals(_, _, _)
UpdateTotals(db, grouping, n) ==
    IF n = 0 THEN db
    ELSE LET season_ids == grouping[n].value
         IN  SetTotals(UpdateTotals(db, grouping, n - 1), season_ids,
                       Len(season_ids), TotalSeasons(season_ids))

\* str(final_db[unique_id].get('season_number', 1))
SeasonKey(entry) ==
    IF "season_number" \notin DOMAIN entry THEN IntToStr(1)
    ELSE IF entry.season_number = None THEN <<"N", "o", "n", "e">>
         ELSE IntToStr(Unwrap(entry.season_number))

\* lines 550-553: series_db[base_name][str(season_num)] = uid
SetSeason(m, db, uid) ==
    IF HasKey(db, uid) THEN DictSet(m, SeasonKey(DictGet(db, uid)), uid) ELSE m

\* step 3, inner loop: the seasons dict of a group after its first n ids
RECURSIVE SeasonsOf(_, _, _)
SeasonsOf(db, season_ids, n) ==
    IF n = 0 THEN <<>>
    ELSE CHOOSE r \in {SetSeason(m, db, season_ids[n]) :
                          m \in {SeasonsOf(db, season_ids, n - 1)}} : TRUE

\* step 3: series_db
BuildSeriesDb(db, grouping) ==
    [i \in 1..Len(grouping) |->
        [key |-> grouping[i].key,
         value |-> SeasonsOf(db, grouping[i].value, Len(grouping[i].value))]]


(***************************************************************************)
(* The upsert of main().                                                   *)
(***************************************************************************)
\* a store that appends every scraped record
UpsertAppend(db, uid, details) == Append(db, [key |-> uid, value |-> details])

\* a store that overwrites the held record with the scraped one
UpsertOverwrite(db, uid, details) == DictSet(db, uid, details)

\* an upsert that recomputes the season counts record by record
UpsertRecounting(db, uid, details) ==
    LET d == IF ~HasKey(db, uid)
             THEN DictSet(db, uid, details)
             ELSE DictSet(db, uid, FillMissing(DictGet(db, uid), details))
    IN  UpdateTotals(d, SeriesGrouping(d, Len(d)), Len(SeriesGrouping(d, Len(d))))

\* a store that holds the scraped record alone
UpsertAlone(db, uid, details) == <<[key |-> uid, value |-> details]>>

\* lines 487-504: insert a new key, else fill the held record's missing fields
Upsert(db, uid, details) ==
    IF ~HasKey(db, uid)
    THEN DictSet(db, uid, details)
    ELSE DictSet(db, uid, FillMissing(DictGet(db, uid), details))

(***************************************************************************)
(* The catalog a run may find on disk: what an earlier run left when the   *)
(* film's page still read "M (2019)" and named no director, and the series *)
(* had its first season only.                                              *)
(***************************************************************************)
\* "M (2019)"
TitleOld == <<"M", " ", "(", "2", "0", "1", "9", ")">>

PriorDb ==
    <<[key |-> <<"t", "t", "1">>,
       value |-> [source_url |-> "a", title |-> TitleOld,
                  year |-> Some(<<"2", "0", "1", "9">>), is_series |-> FALSE,
                  season_number |-> None, series_name |-> None,
                  imdbURL |-> ImdbUrl("1"), genre |-> Some("Crime")]],
      [key |-> <<"t", "t", "2", "-", "S", "1">>,
       value |-> [source_url |-> "c", title |-> TitleC,
                  year |-> None, is_series |-> TRUE,
                  season_number |-> Some(1), series_name |-> Some(<<"A", "b">>),
                  imdbURL |-> ImdbUrl("2"), genre |-> Some("Drama"),
                  total_seasons |-> 1]]>>

PriorSeriesDb ==
    <<[key |-> <<"A", "b">>,
       value |-> <<[key |-> <<"1">>, value |-> <<"t", "t", "2", "-", "S", "1">>]>>]>>

Entries == ListedUrls \cup {NO_LINK}

Feeds == UNION {[1..n -> Entries] : n \in 0..MaxFeed}

START_PAGE == 1

\* a ceiling that lets one page more through
PageCeilingOffByOne == MAX_PAGES + 1

\* min(MAX_PAGES, 300)
MAX_PAGE_TO_CHECK == IF MAX_PAGES < 300 THEN MAX_PAGES ELSE 300

Init ==
    /\ feed \in Feeds
    /\ tail \in Tails
    /\ feed = <<>> => tail \in {"empty", "fail"}
    /\ MAX_PAGES \in {LowCeiling, HighCeiling}
    /\ \/ db_json = None /\ series_json = None
       \/ db_json = Some(PriorDb) /\ series_json = Some(PriorSeriesDb)
    /\ db_backup = None
    /\ series_backup = None
    /\ run = 1
    /\ pc = "start"
    /\ final_db = <<>>
    /\ current_page_url = RELEASES_URL
    /\ newly_added_count = 0
    /\ page_num = START_PAGE
    /\ list_soup = None
    /\ entry_idx = 0
    /\ new_on_this_page = 0
    /\ detail_url = None
    /\ post_details = None
    /\ unique_id = None
    /\ outcome = "none"
    /\ series_db = <<>>
    /\ db_file = "json"
    /\ ids_at_page_start = 0
    /\ listing_fetches = 0
    /\ slept_since_detail = None
    /\ slept_since_listing = None
    /\ NoCalls

(***************************************************************************)
(* Sites whose listing is deeper than the early stop's first pages: six    *)
(* listing pages of articles without a link, then up to MaxFeed entries;   *)
(* and a db.json that holds no JSON or cannot be opened.                   *)
(***************************************************************************)
Padding == [i \in 1..((START_PAGE + 5) * PageSize) |-> NO_LINK]

DeepEntries == {"a", "f", "g", "h"}

DeepFeeds == {Padding \o s : s \in UNION {[1..n -> DeepEntries] : n \in 0..MaxFeed}}

DbFiles == {"json", "corrupt", "unreadable"}

DeepInit ==
    /\ feed \in DeepFeeds
    /\ tail \in Tails
    /\ MAX_PAGES \in {LowCeiling, HighCeiling}
    /\ \/ db_json = None /\ series_json = None /\ db_file = "json"
       \/ db_json = Some(PriorDb) /\ series_json = Some(PriorSeriesDb)
            /\ db_file \in DbFiles
    /\ db_backup = None
    /\ series_backup = None
    /\ run = 1
    /\ pc = "start"
    /\ final_db = <<>>
    /\ current_page_url = RELEASES_URL
    /\ newly_added_count = 0
    /\ page_num = START_PAGE
    /\ list_soup = None
    /\ entry_idx = 0
    /\ new_on_this_page = 0
    /\ detail_url = None
    /\ post_details = None
    /\ unique_id = None
    /\ outcome = "none"
    /\ series_db = <<>>
    /\ ids_at_page_start = 0
    /\ listing_fetches = 0
    /\ slept_since_detail = None
    /\ slept_since_listing = None
    /\ NoCalls

\* line 506: time.sleep(0.1), in tenths of a second
ENTRY_DELAY == 1

\* line 523: time.sleep(0.2), in tenths of a second
PAGE_DELAY == 2

\* time.sleep(d) in the history of the sleeps since a fetch; None before
\* the first fetch
Slept(since, d) == IF since = None THEN None ELSE Some(Unwrap(since) \cup {d})

\* a start that never reads db.json
LoadFresh(file) == <<>>

\* json.load of db.json, {} when the file is missing
LoadDb(file) == IF file = None THEN <<>> ELSE Unwrap(file)

\* lines 448-463: the process starts and loads the catalog
Load ==
    /\ pc = "start"
    /\ db_file # "unreadable"
    /\ final_db' = IF db_file = "corrupt" THEN <<>> ELSE LoadDb(db_json)
    /\ ids_at_page_start' = 0
    /\ listing_fetches' = 0
    /\ current_page_url' = RELEASES_URL
    /\ newly_added_count' = 0
    /\ page_num' = START_PAGE
    /\ list_soup' = None
    /\ entry_idx' = 0
    /\ new_on_this_page' = 0
    /\ detail_url' = None
    /\ post_details' = None
    /\ unique_id' = None
    /\ outcome' = "none"
    /\ series_db' = <<>>
    /\ pc' = "while"
    /\ slept_since_detail' = None
    /\ slept_since_listing' = None
    /\ UNCHANGED <<calls, db_file>>
    /\ UNCHANGED <<site, files, run>>

\* one more listing fetch in the history of the run; no run makes more
\* fetches than the highest ceiling, and the history counts no further
CountFetch(n) == IF n <= HighCeiling THEN n + 1 ELSE n

\* line 465: the while condition fails at the page ceiling
PageCeiling ==
    /\ pc = "while"
    /\ page_num > MAX_PAGE_TO_CHECK
    /\ pc' = "post"
    /\ UNCHANGED <<delays, calls, db_file, ids_at_page_start>>
    /\ UNCHANGED listing_fetches
    /\ UNCHANGED <<site, files, run, final_db, current_page_url,
                   newly_added_count, page_num, locals, series_db>>

\* lines 467-468: the listing page cannot be fetched
ListingFetchFails ==
    /\ pc = "while"
    /\ page_num <= MAX_PAGE_TO_CHECK
    /\ ListingDoc(current_page_url) = None
    /\ list_soup' = None
    /\ listing_fetches' = CountFetch(listing_fetches)
    /\ pc' = "post"
    /\ slept_since_listing' = Some({})
    /\ UNCHANGED slept_since_detail
    /\ UNCHANGED <<calls, db_file, ids_at_page_start>>
    /\ UNCHANGED <<site, files, run, final_db, current_page_url,
                   newly_added_count, page_num, entry_idx, new_on_this_page,
                   detail_url, post_details, unique_id, outcome, series_db>>

\* lines 467-471: the listing page has no entries
ListingEmpty ==
    /\ pc = "while"
    /\ page_num <= MAX_PAGE_TO_CHECK
    /\ ListingDoc(current_page_url) # None
    /\ Unwrap(ListingDoc(current_page_url)).entries = <<>>
    /\ list_soup' = ListingDoc(current_page_url)
    /\ listing_fetches' = CountFetch(listing_fetches)
    /\ pc' = "post"
    /\ slept_since_listing' = Some({})
    /\ UNCHANGED slept_since_detail
    /\ UNCHANGED <<calls, db_file, ids_at_page_start>>
    /\ UNCHANGED <<site, files, run, final_db, current_page_url,
                   newly_added_count, page_num, entry_idx, new_on_this_page,
                   detail_url, post_details, unique_id, outcome, series_db>>

\* lines 467-474: the listing page is fetched and the for loop starts
ListingFetched ==
    /\ pc = "while"
    /\ page_num <= MAX_PAGE_TO_CHECK
    /\ ListingDoc(current_page_url) # None
    /\ Unwrap(ListingDoc(current_page_url)).entries # <<>>
    /\ list_soup' = ListingDoc(current_page_url)
    /\ new_on_this_page' = 0
    /\ entry_idx' = 1
    /\ ids_at_page_start' = Len(final_db)
    /\ listing_fetches' = CountFetch(listing_fetches)
    /\ pc' = "for"
    /\ slept_since_listing' = Some({})
    /\ UNCHANGED slept_since_detail
    /\ UNCHANGED <<calls, db_file>>
    /\ UNCHANGED <<site, files, run, final_db, current_page_url,
                   newly_added_count, page_num, detail_url, post_details,
                   unique_id, outcome, series_db>>

InForLoop == pc = "for" /\ entry_idx <= Len(Unwrap(list_soup).entries)

\* lines 475-476: the entry has no link
EntryNoLink ==
    /\ InForLoop
    /\ Unwrap(list_soup).entries[entry_idx] = NO_LINK
    /\ outcome' = "no_link"
    /\ entry_idx' = entry_idx + 1
    /\ UNCHANGED <<delays, calls, db_file, ids_at_page_start>>
    /\ UNCHANGED listing_fetches
    /\ UNCHANGED <<site, files, run, pc, final_db, current_page_url,
                   newly_added_count, page_num, list_soup, new_on_this_page,
                   detail_url, post_details, unique_id, series_db>>

\* lines 478-480: the detail page gives no details
EntryNoDetails ==
    /\ InForLoop
    /\ Unwrap(list_soup).entries[entry_idx] # NO_LINK
    /\ None \in Scraped[Unwrap(list_soup).entries[entry_idx]]
    /\ post_details' = None
    /\ detail_url' = Some(Unwrap(list_soup).entries[entry_idx])
    /\ outcome' = "no_details"
    /\ entry_idx' = entry_idx + 1
    /\ slept_since_detail' = Some({})
    /\ UNCHANGED slept_since_listing
    /\ UNCHANGED <<calls, db_file, ids_at_page_start>>
    /\ UNCHANGED listing_fetches
    /\ UNCHANGED <<site, files, run, pc, final_db, current_page_url,
                   newly_added_count, page_num, list_soup, new_on_this_page,
                   unique_id, series_db>>

\* lines 482-485 on each page's details: imdb_id and unique_id
Keyed ==
    [url \in DetailUrls |->
        {[details |-> Unwrap(d),
          imdb_id |-> extract_imdb_id(ImdbUrlOf(Unwrap(d))),
          uid |-> IF extract_imdb_id(ImdbUrlOf(Unwrap(d))) = None THEN <<>>
                  ELSE UniqueId(Unwrap(extract_imdb_id(ImdbUrlOf(Unwrap(d)))), Unwrap(d))]
         : d \in Scraped[url] \ {None}}]

\* lines 478-483: the details name no IMDb id
EntryRejected ==
    /\ InForLoop
    /\ Unwrap(list_soup).entries[entry_idx] # NO_LINK
    /\ \E k \in Keyed[Unwrap(list_soup).entries[entry_idx]] :
              /\ k.imdb_id = None
              /\ post_details' = Some(k.details)
    /\ detail_url' = Some(Unwrap(list_soup).entries[entry_idx])
    /\ outcome' = "no_imdb_id"
    /\ entry_idx' = entry_idx + 1
    /\ slept_since_detail' = Some({})
    /\ UNCHANGED slept_since_listing
    /\ UNCHANGED <<calls, db_file, ids_at_page_start>>
    /\ UNCHANGED listing_fetches
    /\ UNCHANGED <<site, files, run, pc, final_db, current_page_url,
                   newly_added_count, page_num, list_soup, new_on_this_page,
                   unique_id, series_db>>

\* lines 478-506: the details are reconciled into final_db
EntryStored ==
    /\ InForLoop
    /\ Unwrap(list_soup).entries[entry_idx] # NO_LINK
    /\ \E k \in Keyed[Unwrap(list_soup).entries[entry_idx]] :
          LET is_new == ~HasKey(final_db, k.uid)
              updated == ~is_new /\ Fillable(DictGet(final_db, k.uid), k.details) # {}
          IN  /\ k.imdb_id # None
              /\ post_details' = Some(k.details)
              /\ unique_id' = Some(k.uid)
              /\ final_db' = Upsert(final_db, k.uid, k.details)
              /\ newly_added_count' =
                    IF is_new \/ updated THEN newly_added_count + 1 ELSE newly_added_count
              /\ new_on_this_page' =
                    IF is_new \/ updated THEN new_on_this_page + 1 ELSE new_on_this_page
              /\ outcome' = IF is_new THEN "new"
                            ELSE IF updated THEN "updated" ELSE "unchanged"
    /\ detail_url' = Some(Unwrap(list_soup).entries[entry_idx])
    /\ entry_idx' = entry_idx + 1
    /\ slept_since_detail' = Some({ENTRY_DELAY})
    /\ slept_since_listing' = Slept(slept_since_listing, ENTRY_DELAY)
    /\ UNCHANGED <<calls, db_file, ids_at_page_start>>
    /\ UNCHANGED listing_fetches
    /\ UNCHANGED <<site, files, run, pc, current_page_url, page_num, list_soup,
                   series_db>>

ForLoopDone == pc = "for" /\ entry_idx > Len(Unwrap(list_soup).entries)

\* an early stop that spares one page more
StopsEarlyLater == new_on_this_page = 0 /\ page_num > START_PAGE + 6

\* new_on_this_page == 0 and page_num > (START_PAGE + 5)
StopsEarly == new_on_this_page = 0 /\ page_num > START_PAGE + 5

\* a walk that never counts its pages
SamePageNum(n) == n

\* page_num += 1
NextPageNum(n) == n + 1

\* lines 511-513: nothing new on an older page
EarlyStop ==
    /\ ForLoopDone
    /\ StopsEarly
    /\ pc' = "post"
    /\ UNCHANGED <<delays, calls, db_file, ids_at_page_start>>
    /\ UNCHANGED listing_fetches
    /\ UNCHANGED <<site, files, run, final_db, current_page_url,
                   newly_added_count, page_num, locals, series_db>>

\* lines 516-519, 523: on to the next listing page
FollowNext ==
    /\ ForLoopDone
    /\ ~StopsEarly
    /\ Unwrap(list_soup).next # None
    /\ current_page_url' = Unwrap(Unwrap(list_soup).next)
    /\ page_num' = NextPageNum(page_num)
    /\ pc' = "while"
    /\ slept_since_detail' = Slept(slept_since_detail, PAGE_DELAY)
    /\ slept_since_listing' = Slept(slept_since_listing, PAGE_DELAY)
    /\ UNCHANGED <<calls, db_file, ids_at_page_start>>
    /\ UNCHANGED listing_fetches
    /\ UNCHANGED <<site, files, run, final_db, newly_added_count, locals,
                   series_db>>

\* lines 520-522: the page has no next link
NoNextPage ==
    /\ ForLoopDone
    /\ ~StopsEarly
    /\ Unwrap(list_soup).next = None
    /\ pc' = "post"
    /\ UNCHANGED <<delays, calls, db_file, ids_at_page_start>>
    /\ UNCHANGED listing_fetches
    /\ UNCHANGED <<site, files, run, final_db, current_page_url,
                   newly_added_count, page_num, locals, series_db>>

\* lines 530-555: group the series, write total_seasons, build series_db
PostProcess ==
    /\ pc = "post"
    /\ \E series_grouping \in {SeriesGrouping(final_db, Len(final_db))} :
           /\ final_db' = UpdateTotals(final_db, series_grouping, Len(series_grouping))
           /\ series_db' = BuildSeriesDb(final_db', series_grouping)
    /\ pc' = "save"
    /\ UNCHANGED <<delays, calls, db_file, ids_at_page_start>>
    /\ UNCHANGED listing_fetches
    /\ UNCHANGED <<site, files, run, current_page_url, newly_added_count,
                   page_num, locals>>

\* lines 557-582: each file is moved to its backup and written anew
Save ==
    /\ pc = "save"
    /\ db_backup' = db_json
    /\ db_json' = Some(final_db)
    /\ series_backup' = series_json
    /\ series_json' = Some(series_db)
    /\ db_file' = "json"
    /\ pc' = "done"
    /\ UNCHANGED <<delays, calls, ids_at_page_start>>
    /\ UNCHANGED listing_fetches
    /\ UNCHANGED <<site, run, final_db, current_page_url, newly_added_count,
                   page_num, locals, series_db>>

\* the scraper is run again
NextRun ==
    /\ pc = "done"
    /\ run < MaxRuns
    /\ run' = run + 1
    /\ pc' = "start"
    /\ UNCHANGED <<delays, calls, db_file, ids_at_page_start>>
    /\ UNCHANGED listing_fetches
    /\ UNCHANGED <<site, files, final_db, current_page_url, newly_added_count,
                   page_num, locals, series_db>>

Step ==
    \/ Load
    \/ PageCeiling
    \/ ListingFetchFails
    \/ ListingEmpty
    \/ ListingFetched
    \/ EntryNoLink
    \/ EntryNoDetails
    \/ EntryRejected
    \/ EntryStored
    \/ EarlyStop
    \/ FollowNext
    \/ NoNextPage
    \/ PostProcess
    \/ Save

Next == Step \/ NextRun

\* a load that lets the error of json.load through as well
LoadRaisesUnparsed ==
    /\ pc = "start"
    /\ db_file # "json"
    /\ pc' = "raised"
    /\ UNCHANGED <<delays, calls, db_file, ids_at_page_start, listing_fetches>>
    /\ UNCHANGED <<site, files, run, final_db, current_page_url,
                   newly_added_count, page_num, locals, series_db>>

\* line 449: open() raises an error that main() does not catch
LoadRaises ==
    /\ pc = "start"
    /\ db_file = "unreadable"
    /\ pc' = "raised"
    /\ UNCHANGED <<delays, calls, db_file, ids_at_page_start, listing_fetches>>
    /\ UNCHANGED <<site, files, run, final_db, current_page_url,
                   newly_added_count, page_num, locals, series_db>>

DeepNext == Next \/ LoadRaises

Spec == Init /\ [][Next]_vars

\* a started process runs on: nothing in main() waits for anything but a
\* fetch, and every fetch has a timeout
FairSpec == Spec /\ WF_vars(Step)

DeepSpec == DeepInit /\ [][DeepNext]_vars

(***************************************************************************)
(* get_soup(url) called on its own, lines 22-29: what the server answers   *)
(* to the successive requests for the url is drawn from Answers.           *)
(***************************************************************************)
\* the answers the server would give, one for each request sent
MaxAttempts == 3

\* final status codes of a response (requests follows the redirects)
Statuses == {200, 404, 500, 503}

\* a request ends in an exception of requests or in a response
Answers ==
    {[error |-> e, status |-> 0, content |-> <<>>] : e \in {"Timeout", "ConnectionError"}}
    \cup {[error |-> "", status |-> st,
           content |-> IF st = 200 THEN <<"<", "h", "1", ">">> ELSE <<"<", "p", ">">>]
          : st \in Statuses}

\* the exceptions line 27 would catch if it named HTTPError alone
HTTPErrorOnly == {"HTTPError"}

\* line 27: the subclasses of requests.RequestException an answer can raise
RequestException == {"Timeout", "ConnectionError", "HTTPError"}

\* line 25: response.raise_for_status() raises for the 4xx and 5xx codes
raise_for_status(response) ==
    IF response.status >= 400 /\ response.status < 600 THEN Some("HTTPError") ELSE None

\* line 26: the parsed document of a body
BeautifulSoup(content) == [parser |-> "html.parser", markup |-> content]

\* one request, lines 24-29: what it raises inside the try block, if
\* anything, and what get_soup returns or lets through
Attempt(response, n) ==
    LET exc == IF response.error # "" THEN Some(response.error)
               ELSE raise_for_status(response)
    IN  IF exc = None
        THEN [requests |-> n, soup |-> Some(BeautifulSoup(response.content)), raised |-> None]
        ELSE IF Unwrap(exc) \in RequestException
             THEN [requests |-> n, soup |-> None, raised |-> None]
             ELSE [requests |-> n, soup |-> None, raised |-> exc]

RECURSIVE get_soup_retrying_from(_, _)
\* get_soup as it would be with a retry loop of MaxAttempts attempts
get_soup_retrying_from(answers, n) ==
    LET r == Attempt(answers[n], n)
    IN  IF r.soup # None \/ r.raised # None \/ n >= Len(answers) THEN r
        ELSE get_soup_retrying_from(answers, n + 1)

get_soup_retrying(answers) == get_soup_retrying_from(answers, 1)

\* lines 22-29: a single requests.get, no loop around it
get_soup(answers) == Attempt(answers[1], 1)

\* the variables of main() but its position
main ==
    <<site, files, run, final_db, current_page_url, newly_added_count, page_num,
      locals, series_db, db_file, ids_at_page_start, listing_fetches, delays>>

\* main() is not running
NoRun ==
    /\ feed = <<>>
    /\ tail = "empty"
    /\ MAX_PAGES = LowCeiling
    /\ db_json = None
    /\ series_json = None
    /\ db_backup = None
    /\ series_backup = None
    /\ run = 1
    /\ final_db = <<>>
    /\ current_page_url = RELEASES_URL
    /\ newly_added_count = 0
    /\ page_num = START_PAGE
    /\ list_soup = None
    /\ entry_idx = 0
    /\ new_on_this_page = 0
    /\ detail_url = None
    /\ post_details = None
    /\ unique_id = None
    /\ outcome = "none"
    /\ series_db = <<>>
    /\ db_file = "json"
    /\ ids_at_page_start = 0
    /\ listing_fetches = 0
    /\ slept_since_detail = None
    /\ slept_since_listing = None

(***************************************************************************)
(* What each call leaves alone, and finds idle.                            *)
(***************************************************************************)
\* what is beside title_call
beside_title == <<main, fetch_call, runs_call, search_call, save_call, limit_call, webhook_call, task_call>>

BesideTitleIdle ==
    /\ NoRun
    /\ NoFetchCall
    /\ NoConcurrentRuns
    /\ NoSearchCall
    /\ NoSaveCall
    /\ NoLimitCall
    /\ NoWebhookCall
    /\ NoTaskCall

\* what is beside fetch_call
beside_fetch == <<main, title_call, runs_call, search_call, save_call, limit_call, webhook_call, task_call>>

BesideFetchIdle ==
    /\ NoRun
    /\ NoTitleCall
    /\ NoConcurrentRuns
    /\ NoSearchCall
    /\ NoSaveCall
    /\ NoLimitCall
    /\ NoWebhookCall
    /\ NoTaskCall

\* what is beside runs_call
beside_runs == <<main, title_call, fetch_call, search_call, save_call, limit_call, webhook_call, task_call>>

BesideRunsIdle ==
    /\ NoRun
    /\ NoTitleCall
    /\ NoFetchCall
    /\ NoSearchCall
    /\ NoSaveCall
    /\ NoLimitCall
    /\ NoWebhookCall
    /\ NoTaskCall

\* what is beside search_call
beside_search == <<main, title_call, fetch_call, runs_call, save_call, limit_call, webhook_call, task_call>>

BesideSearchIdle ==
    /\ NoRun
    /\ NoTitleCall
    /\ NoFetchCall
    /\ NoConcurrentRuns
    /\ NoSaveCall
    /\ NoLimitCall
    /\ NoWebhookCall
    /\ NoTaskCall

\* what is beside save_call
beside_save == <<main, title_call, fetch_call, runs_call, search_call, limit_call, webhook_call, task_call>>

BesideSaveIdle ==
    /\ NoRun
    /\ NoTitleCall
    /\ NoFetchCall
    /\ NoConcurrentRuns
    /\ NoSearchCall
    /\ NoLimitCall
    /\ NoWebhookCall
    /\ NoTaskCall

\* what is beside limit_call
beside_limit == <<main, title_call, fetch_call, runs_call, search_call, save_call, webhook_call, task_call>>

BesideLimitIdle ==
    /\ NoRun
    /\ NoTitleCall
    /\ NoFetchCall
    /\ NoConcurrentRuns
    /\ NoSearchCall
    /\ NoSaveCall
    /\ NoWebhookCall
    /\ NoTaskCall

\* what is beside webhook_call
beside_webhook == <<main, title_call, fetch_call, runs_call, search_call, save_call, limit_call, task_call>>

BesideWebhookIdle ==
    /\ NoRun
    /\ NoTitleCall
    /\ NoFetchCall
    /\ NoConcurrentRuns
    /\ NoSearchCall
    /\ NoSaveCall
    /\ NoLimitCall
    /\ NoTaskCall

\* what is beside task_call
beside_task == <<main, title_call, fetch_call, runs_call, search_call, save_call, limit_call, webhook_call>>

BesideTaskIdle ==
    /\ NoRun
    /\ NoTitleCall
    /\ NoFetchCall
    /\ NoConcurrentRuns
    /\ NoSearchCall
    /\ NoSaveCall
    /\ NoLimitCall
    /\ NoWebhookCall

FetchInit ==
    /\ BesideFetchIdle
    /\ pc = "get_soup"
    /\ responses \in [1..MaxAttempts -> Answers]
    /\ requests_made = 0
    /\ soup_returned = None
    /\ raised = None

\* the call get_soup(url)
GetSoup ==
    /\ pc = "get_soup"
    /\ \E r \in {get_soup(responses)} :
          /\ requests_made' = r.requests
          /\ soup_returned' = r.soup
          /\ raised' = r.raised
          /\ pc' = IF r.raised = None THEN "returned" ELSE "raised"
    /\ UNCHANGED <<responses, beside_fetch>>

FetchNext == GetSoup

FetchSpec == FetchInit /\ [][FetchNext]_vars

(***************************************************************************)
(* extract_season_info(title) called as line 80 calls it, on the cleaned   *)
(* text of a title element: the text is put together from at most          *)
(* MaxTokens of the pieces below.                                          *)
(***************************************************************************)
MaxTokens == 4

TitleTokens ==
    {<<"A", "b", " ">>, <<" ">>, <<"S", "e", "a", "s", "o", "n">>, <<"S">>, <<"0">>,
     <<"2">>, <<ML_SEASON>>, <<ML_SEASON_ALT>>, <<"s", "e", "r", "i", "e", "s">>}

RECURSIVE Concat(_)
Concat(ts) == IF ts = <<>> THEN <<>> ELSE Head(ts) \o Concat(Tail(ts))

\* line 78: clean_text(title_tag.get_text()) of every such text
Titles(n) ==
    {clean_text(Some(Concat(ts))) :
        ts \in UNION {[1..m -> TitleTokens] : m \in 0..n}}

TitleInit ==
    /\ BesideTitleIdle
    /\ pc = "extract_season_info"
    /\ given_title \in Titles(MaxTokens)
    /\ season_info = None

\* the call extract_season_info(title)
Extract ==
    /\ pc = "extract_season_info"
    /\ season_info' = Some(extract_season_info(given_title))
    /\ pc' = "extracted"
    /\ UNCHANGED <<given_title, beside_title>>

TitleNext == Extract

TitleSpec == TitleInit /\ [][TitleNext]_vars

(***************************************************************************)
(* Two scraper processes started on the same directory.  Each is main():   *)
(* it loads db.json once (448-453), stores what its walk finds in its own  *)
(* final_db (478-504), and writes the whole of it at the end (530-582).    *)
(***************************************************************************)
Procs == {1, 2}

\* the detail pages a walk can store
StorableUrls == {"a", "c", "d"}

\* the directory before the processes start
SharedDirs ==
    {[db_json |-> None, db_backup |-> None, series_json |-> None, series_backup |-> None],
     [db_json |-> Some(PriorDb), db_backup |-> None,
      series_json |-> Some(PriorSeriesDb), series_backup |-> None]}

ConcInit ==
    /\ BesideRunsIdle
    /\ pc = "processes"
    /\ proc_pc = [p \in Procs |-> "start"]
    /\ mem = [p \in Procs |-> <<>>]
    /\ shared_files \in SharedDirs
    /\ inserted = {}
    /\ overlapped = FALSE

\* lines 448-453 in process p
ProcLoad(p) ==
    /\ proc_pc[p] = "start"
    /\ mem' = [mem EXCEPT ![p] = LoadDb(shared_files.db_json)]
    /\ proc_pc' = [proc_pc EXCEPT ![p] = "walk"]
    /\ overlapped' = (overlapped \/ \E q \in Procs \ {p} : proc_pc[q] = "walk")
    /\ UNCHANGED <<shared_files, inserted, pc, beside_runs>>

\* lines 478-504 in process p: an entry of its walk is reconciled
ProcStore(p) ==
    /\ proc_pc[p] = "walk"
    /\ \E url \in StorableUrls : \E k \in Keyed[url] :
          /\ k.imdb_id # None
          /\ mem' = [mem EXCEPT ![p] = Upsert(mem[p], k.uid, k.details)]
          /\ inserted' = IF HasKey(mem[p], k.uid) THEN inserted ELSE inserted \cup {k.uid}
    /\ UNCHANGED <<proc_pc, shared_files, overlapped, pc, beside_runs>>

\* lines 530-582 in process p: the post-processing and the save step
ProcSave(p) ==
    /\ proc_pc[p] = "walk"
    /\ \E series_grouping \in {SeriesGrouping(mem[p], Len(mem[p]))} :
          \E db \in {UpdateTotals(mem[p], series_grouping, Len(series_grouping))} :
              /\ mem' = [mem EXCEPT ![p] = db]
              /\ shared_files' =
                    [db_json |-> Some(db),
                     db_backup |-> shared_files.db_json,
                     series_json |-> Some(BuildSeriesDb(db, series_grouping)),
                     series_backup |-> shared_files.series_json]
    /\ proc_pc' = [proc_pc EXCEPT ![p] = "done"]
    /\ UNCHANGED <<inserted, overlapped, pc, beside_runs>>

ConcNext == \E p \in Procs : ProcLoad(p) \/ ProcStore(p) \/ ProcSave(p)

ConcSpec == ConcInit /\ [][ConcNext]_vars

(***************************************************************************)
(* The search branch of handle_telegram_message in app.py, lines 1170-1199,*)
(* on the results search_content returns, and the keyboard it builds.      *)
(***************************************************************************)
\* Python keys: an int and a str are never equal, whatever they spell
IntKey(n) == [t |-> "int", i |-> n, s |-> <<>>]
StrKey(text) == [t |-> "str", i |-> 0, s |-> text]

\* a == b
PyEq(a, b) == a.t = b.t /\ IF a.t = "int" THEN a.i = b.i ELSE a.s = b.s

\* str(k), and k in an f-string
PyStr(k) == IF k.t = "int" THEN IntToStr(k.i) ELSE k.s

\* a < b on two str, by code point
RECURSIVE StrLess(_, _)
StrLess(a, b) ==
    IF b = <<>> THEN FALSE
    ELSE IF a = <<>> THEN TRUE
    ELSE IF a[1] # b[1] THEN DigitVal[a[1]] < DigitVal[b[1]]
    ELSE StrLess(Tail(a), Tail(b))

\* a < b on two keys of one type
PyLess(a, b) == IF a.t = "int" THEN a.i < b.i ELSE StrLess(a.s, b.s)

\* `k in d`
PyIn(k, d) == \E i \in 1..Len(d) : PyEq(d[i].key, k)

\* d[k] = v
PySet(d, k, v) ==
    IF PyIn(k, d)
    THEN [i \in 1..Len(d) |-> IF PyEq(d[i].key, k) THEN [key |-> k, value |-> v] ELSE d[i]]
    ELSE Append(d, [key |-> k, value |-> v])

\* d[k]
PyGet(d, k) == d[CHOOSE i \in 1..Len(d) : PyEq(d[i].key, k)].value

\* sorted(keys): the keys of a dict are distinct
RECURSIVE Sorted(_)
Sorted(ks) ==
    IF ks = <<>> THEN <<>>
    ELSE LET least == CHOOSE i \in 1..Len(ks) :
                          \A j \in 1..Len(ks) : j = i \/ PyLess(ks[i], ks[j])
         IN  <<ks[least]>> \o
             Sorted([j \in 1..(Len(ks) - 1) |-> IF j < least THEN ks[j] ELSE ks[j + 1]])

CLOSE_BUTTON == [text |-> <<"Close">>, callback_data |-> <<"menu_close">>]

\* lines 609-623
create_series_seasons_keyboard(seasons) ==
    LET sorted_season_numbers == Sorted([i \in 1..Len(seasons) |-> seasons[i].key])
    IN  [i \in 1..Len(seasons) |->
            [text |-> <<"Season ">> \o PyStr(sorted_season_numbers[i]),
             callback_data |-> <<"view_", PyGet(seasons, sorted_season_numbers[i])>>]]
        \o <<CLOSE_BUTTON>>

\* lines 197-204, the split of line 203 being that of scraper.py line 62
get_base_series_name(title) == IF title = <<>> THEN <<>> ELSE SplitSeriesName(title)

\* "Ab Season <n>"
AbSeason(n) == <<"A", "b", " ", "S", "e", "a", "s", "o", "n", " ">> \o IntToStr(n)

\* the records of db a search can match: a film, the seasons 1, 2 and 10 of
\* a series, season 2 once more under another id, a season of another series
Matches ==
    {[imdb_id |-> "tt1", entry |-> [title |-> TitleA, is_series |-> FALSE, season_number |-> None]],
     [imdb_id |-> "tt2-S1", entry |-> [title |-> AbSeason(1), is_series |-> TRUE, season_number |-> Some(1)]],
     [imdb_id |-> "tt2-S2", entry |-> [title |-> AbSeason(2), is_series |-> TRUE, season_number |-> Some(2)]],
     [imdb_id |-> "tt3-S2", entry |-> [title |-> AbSeason(2), is_series |-> TRUE, season_number |-> Some(2)]],
     [imdb_id |-> "tt2-S10", entry |-> [title |-> AbSeason(10), is_series |-> TRUE, season_number |-> Some(10)]],
     [imdb_id |-> "tt5-S1",
      entry |-> [title |-> <<"X", " ", "S", "e", "a", "s", "o", "n", " ", "1">>,
                 is_series |-> TRUE, season_number |-> Some(1)]]}

\* the longest list of results
MaxResults == 4

\* lists of distinct matches, most relevant first
ResultLists ==
    {r \in UNION {[1..n -> Matches] : n \in 1..MaxResults} :
        \A i, j \in 1..Len(r) : i # j => r[i] # r[j]}

\* lines 1180-1189 on the first n results
RECURSIVE SeasonsAmong(_, _, _)
SeasonsAmong(rs, n, base_name_to_show) ==
    IF n = 0 THEN <<>>
    ELSE LET sofar == SeasonsAmong(rs, n - 1, base_name_to_show)
             entry == rs[n].entry
         IN  IF /\ entry.is_series
                /\ LowerStr(get_base_series_name(entry.title)) = LowerStr(base_name_to_show)
                /\ ~PyIn(IntKey(Unwrap(entry.season_number)), sofar)
             THEN PySet(sofar, StrKey(IntToStr(Unwrap(entry.season_number))), rs[n].imdb_id)
             ELSE sofar

SearchInit ==
    /\ BesideSearchIdle
    /\ pc = "search"
    /\ results \in ResultLists
    /\ seasons_for_this_series = <<>>
    /\ reply_markup = None

\* lines 1170-1199: the season selector when the most relevant result is a
\* series of which the results hold more than one season
SearchReplies ==
    /\ pc = "search"
    /\ LET most_relevant_entry == results[1].entry
           base_name_to_show == get_base_series_name(most_relevant_entry.title)
       IN  IF most_relevant_entry.is_series /\ base_name_to_show # <<>>
           THEN \E seasons \in {SeasonsAmong(results, Len(results), base_name_to_show)} :
                   /\ seasons_for_this_series' = seasons
                   /\ reply_markup' = IF Len(seasons) > 1
                                      THEN Some(create_series_seasons_keyboard(seasons))
                                      ELSE None
           ELSE UNCHANGED <<seasons_for_this_series, reply_markup>>
    /\ pc' = "replied"
    /\ UNCHANGED <<results, beside_search>>

SearchNext == SearchReplies

SearchSpec == SearchInit /\ [][SearchNext]_vars

(***************************************************************************)
(* The save step of main(), lines 557-582, one file operation at a time:   *)
(* for db.json and then series_db.json, the old backup is removed, the     *)
(* file is renamed to its backup, and the file is opened for writing and   *)
(* dumped into.  os.remove and os.rename may raise, which is logged and    *)
(* passed over (565-568, 572-576); open and json.dump may raise, which     *)
(* ends the step (581-582).                                                *)
(***************************************************************************)
\* a file that holds the whole of data
Complete(data) == Some([complete |-> TRUE, data |-> data])

\* a file opened for writing, or left by a dump that raised part-way
PARTIAL == Some([complete |-> FALSE, data |-> <<>>])

FILENAMES == <<"db.json", "series_db.json">>

BackupOf(filename) == IF filename = "db.json" THEN "db.json.backup" ELSE "series_db.json.backup"

\* the catalog of the run that saves: what it loaded, or that and one
\* record more
CatalogsToSave ==
    {PriorDb} \cup {Upsert(PriorDb, k.uid, k.details) : k \in Keyed["d"]}

SaveStepInit ==
    /\ BesideSaveIdle
    /\ pc = "save_step"
    /\ \E db \in CatalogsToSave :
          to_save = [f \in {"db.json", "series_db.json"} |->
                        IF f = "db.json" THEN db
                        ELSE BuildSeriesDb(db, SeriesGrouping(db, Len(db)))]
    /\ \E old_backup \in {None, Complete(<<>>)} : \E old_series \in {None, Complete(PriorSeriesDb)} :
          disk = [f \in {"db.json", "db.json.backup", "series_db.json", "series_db.json.backup"} |->
                     CASE f = "db.json" -> Complete(PriorDb)
                       [] f = "db.json.backup" -> old_backup
                       [] f = "series_db.json" -> old_series
                       [] f = "series_db.json.backup" -> IF old_series = None THEN None ELSE old_backup]
    /\ save_at = [file |-> 1, step |-> "remove"]
    /\ rename_failed = FALSE

\* the file the step is at
Filename == FILENAMES[save_at.file]

AtStep(step) == pc = "save_step" /\ save_at # <<>> /\ save_at.step = step

\* lines 563-568: the old backup is removed, if there is one and os.remove
\* does not raise
RemoveOldBackup ==
    /\ AtStep("remove")
    /\ \/ disk' = [disk EXCEPT ![BackupOf(Filename)] = None]
       \/ disk[BackupOf(Filename)] # None /\ disk' = disk
    /\ save_at' = [save_at EXCEPT !.step = "rename"]
    /\ UNCHANGED <<to_save, rename_failed, pc, beside_save>>

\* lines 571-576: the file is renamed to the backup; os.rename puts it in
\* the place of a backup that is still there, or raises
RenameToBackup ==
    /\ AtStep("rename")
    /\ \/ /\ disk[Filename] # None
          /\ disk' = [disk EXCEPT ![BackupOf(Filename)] = disk[Filename], ![Filename] = None]
          /\ UNCHANGED rename_failed
       \/ /\ disk[Filename] # None
          /\ disk' = disk
          /\ rename_failed' = (rename_failed \/ Filename = "db.json")
       \/ /\ disk[Filename] = None
          /\ UNCHANGED <<disk, rename_failed>>
    /\ save_at' = [save_at EXCEPT !.step = "open"]
    /\ UNCHANGED <<to_save, pc, beside_save>>

\* line 579: open(filename, 'w') creates or truncates the file, or raises
OpenForWriting ==
    /\ AtStep("open")
    /\ \/ /\ disk' = [disk EXCEPT ![Filename] = PARTIAL]
          /\ save_at' = [save_at EXCEPT !.step = "dump"]
          /\ pc' = pc
       \/ /\ disk' = disk
          /\ save_at' = save_at
          /\ pc' = "save_failed"
    /\ UNCHANGED <<to_save, rename_failed, beside_save>>

\* line 580: json.dump writes the data, or raises part-way
Dump ==
    /\ AtStep("dump")
    /\ \/ /\ disk' = [disk EXCEPT ![Filename] = Complete(to_save[Filename])]
          /\ IF save_at.file < Len(FILENAMES)
             THEN save_at' = [file |-> save_at.file + 1, step |-> "remove"] /\ pc' = pc
             ELSE save_at' = save_at /\ pc' = "saved"
       \/ /\ disk' = disk
          /\ save_at' = save_at
          /\ pc' = "save_failed"
    /\ UNCHANGED <<to_save, rename_failed, beside_save>>

SaveStepNext == RemoveOldBackup \/ RenameToBackup \/ OpenForWriting \/ Dump

SaveStepSpec == SaveStepInit /\ [][SaveStepNext]_vars

(***************************************************************************)
(* The rate limiting of bot.py: is_rate_limited (18-27) as handle_search   *)
(* calls it (118-126), for a few users on a clock of whole seconds.        *)
(***************************************************************************)
\* the last second of the clock
MaxClock == 4

RATE_LIMIT_SECONDS == 2

USERS == {1, 2}

\* datetime.min, earlier than any datetime.now() by more than the limit
DATETIME_MIN == 0 - (MaxClock + RATE_LIMIT_SECONDS)

\* the lengths of the stripped query that handle_search tells apart
QueryLengths == {1, 2}

\* is_rate_limited if it stored the time of every request
is_rate_limited_storing(last_request, user_id, at) ==
    [returns |-> at - last_request[user_id] < RATE_LIMIT_SECONDS,
     user_last_request |-> [last_request EXCEPT ![user_id] = at]]

\* lines 20-27: the value returned and the dict left, for the dict and the
\* time found
is_rate_limited(last_request, user_id, at) ==
    IF at - last_request[user_id] < RATE_LIMIT_SECONDS
    THEN [returns |-> TRUE, user_last_request |-> last_request]
    ELSE [returns |-> FALSE,
          user_last_request |-> [last_request EXCEPT ![user_id] = at]]

LimitInit ==
    /\ BesideLimitIdle
    /\ pc = "bot"
    /\ now = 0
    /\ user_last_request = [u \in USERS |-> DATETIME_MIN]
    /\ last_admitted = [u \in USERS |-> None]
    /\ reply = None

\* a second passes
Tick ==
    /\ pc = "bot"
    /\ now < MaxClock
    /\ now' = now + 1
    /\ UNCHANGED <<user_last_request, last_admitted, reply, pc, beside_limit>>

\* lines 118-130: a text message of user_id reaches handle_search
handle_search(user_id, query_len) ==
    /\ pc = "bot"
    /\ \E r \in {is_rate_limited(user_last_request, user_id, now)} :
          /\ user_last_request' = r.user_last_request
          /\ last_admitted' = IF r.returns THEN last_admitted
                              ELSE [last_admitted EXCEPT ![user_id] = Some(now)]
          /\ reply' = Some([user |-> user_id, at |-> now,
                            text |-> IF r.returns THEN "Please wait"
                                     ELSE IF query_len < 2 THEN "at least 2 characters"
                                     ELSE "searched"])
    /\ UNCHANGED <<now, pc, beside_limit>>

LimitNext ==
    \/ Tick
    \/ \E user_id \in USERS : \E query_len \in QueryLengths : handle_search(user_id, query_len)

LimitSpec == LimitInit /\ [][LimitNext]_vars

(***************************************************************************)
(* The /telegram endpoint of app.py: telegram_webhook (1369-1392) with     *)
(* what handle_telegram_message (916-1215) does to tracked_users and sends *)
(* to the Bot API for the kinds of update it tells apart.                  *)
(***************************************************************************)
\* the most messages the history of sent keeps
MaxSent == 4

\* lines 25-26: the environments the service may start in; WEBHOOK_SECRET
\* has a default, and may be set to the empty string
Environments ==
    [TOKEN : {None, Some("t")}, WEBHOOK_SECRET : {"", "s"}]

\* the X-Telegram-Bot-Api-Secret-Token header of a request, if it has one
Headers == {None, Some(""), Some("s"), Some("x")}

\* the updates handle_telegram_message tells apart: a callback query, a
\* message with text, one without text, one without a sender, and a body
\* that request.json() cannot read
UpdateKinds == {"callback_query", "text", "no_text", "no_sender", "not_json"}

\* line 1375: request.headers.get(name, "")
HeaderGet(header) == IF header = None THEN "" ELSE Unwrap(header)

\* the check of line 1376 if a request without the header passed it
SecretMismatchIfSent(webhook_secret, secret) ==
    webhook_secret # "" /\ secret # "" /\ secret # webhook_secret

\* line 1376
SecretMismatch(webhook_secret, secret) ==
    webhook_secret # "" /\ secret # webhook_secret

\* lines 206-210
add_user(users, user_id) == users \cup {user_id}

\* lines 916-1215 and 1384-1385: the users tracked and the methods sent
\* for an update of user_id
Handled(users, kind, user_id) ==
    CASE kind = "callback_query" ->
            [tracked_users |-> add_user(users, user_id),
             sends |-> <<"editMessageText", "answerCallbackQuery">>]
      [] kind = "text" ->
            [tracked_users |-> add_user(users, user_id), sends |-> <<"sendMessage">>]
      [] kind = "no_text" ->
            [tracked_users |-> add_user(users, user_id), sends |-> <<>>]
      [] kind = "no_sender" ->
            [tracked_users |-> users, sends |-> <<>>]

WebhookInit ==
    /\ BesideWebhookIdle
    /\ pc = "webhook"
    /\ env \in Environments
    /\ tracked_users = {}
    /\ sent = <<>>
    /\ http_response = None

\* lines 1369-1392: one request to /telegram
telegram_webhook(header, kind, user_id) ==
    /\ pc = "webhook"
    /\ Len(sent) + 2 <= MaxSent
    /\ \E secret \in {HeaderGet(header)} :
          IF env.TOKEN = None
          THEN /\ http_response' = Some([secret |-> secret, status |-> 503])
               /\ UNCHANGED <<tracked_users, sent>>
          ELSE IF SecretMismatch(env.WEBHOOK_SECRET, secret)
          THEN /\ http_response' = Some([secret |-> secret, status |-> 403])
               /\ UNCHANGED <<tracked_users, sent>>
          ELSE IF kind = "not_json"
          THEN /\ http_response' = Some([secret |-> secret, status |-> 500])
               /\ UNCHANGED <<tracked_users, sent>>
          ELSE \E h \in {Handled(tracked_users, kind, user_id)} :
               /\ tracked_users' = h.tracked_users
               /\ sent' = sent \o h.sends
               /\ http_response' = Some([secret |-> secret, status |-> 200])
    /\ UNCHANGED <<env, pc, beside_webhook>>

WebhookNext ==
    \E header \in Headers : \E kind \in UpdateKinds : \E user_id \in USERS :
        telegram_webhook(header, kind, user_id)

WebhookSpec == WebhookInit /\ [][WebhookNext]_vars

(***************************************************************************)
(* The download tasks of app.py: the 'download_' branch of                 *)
(* handle_callback_query (852-880) and download_and_upload_subtitle        *)
(* (427-487), one await at a time, for tasks that the event loop           *)
(* interleaves.  send_telegram_message logs what goes wrong in it and      *)
(* returns {} (1263-1265), so it does not raise into the task.             *)
(***************************************************************************)
TASKS == {1, 2}

\* lines 439-442, 465-468, 477-481 and 487: what is sent for the status
\* message
DOWNLOADING == "Downloading subtitle"

UPLOADING == "Uploading"

DOWNLOAD_FAILED == "Download Failed"

DELETE_MESSAGE == "deleteMessage"

TaskInit ==
    /\ BesideTaskIdle
    /\ pc = "tasks"
    /\ task_pc = [t \in TASKS |-> "callback"]
    /\ status_message = [t \in TASKS |-> <<>>]
    /\ error_occurred = [t \in TASKS |-> FALSE]
    /\ failure = [t \in TASKS |-> None]

TaskAt(t, at) == pc = "tasks" /\ task_pc[t] = at

\* the task goes on to the await at
GoesTo(t, at) == task_pc' = [task_pc EXCEPT ![t] = at]

\* the status message of the task is sent one more edit or deletion
Sends(t, what) == status_message' = [status_message EXCEPT ![t] = Append(@, what)]

\* lines 861-880: the 'Preparing to download' message is sent; with its
\* message_id the task is created, without one it is not
PrepareDownload(t) ==
    /\ TaskAt(t, "callback")
    /\ \/ GoesTo(t, "created")
       \/ GoesTo(t, "not_started")
    /\ UNCHANGED <<status_message, error_occurred, failure, pc, beside_task>>

\* lines 429-442: the arguments are there; the status message is edited to
\* 'Downloading'
EditDownloading(t) ==
    /\ TaskAt(t, "created")
    /\ Sends(t, DOWNLOADING)
    /\ GoesTo(t, "download")
    /\ UNCHANGED <<error_occurred, failure, pc, beside_task>>

\* lines 444-463: the file is fetched and written to the temporary
\* directory, or one of session.get, raise_for_status, read and write raises
Download(t) ==
    /\ TaskAt(t, "download")
    /\ \/ GoesTo(t, "downloaded") /\ UNCHANGED failure
       \/ GoesTo(t, "except") /\ failure' = [failure EXCEPT ![t] = Some("download")]
    /\ UNCHANGED <<status_message, error_occurred, pc, beside_task>>

\* lines 465-468: the status message is edited to 'Uploading'
EditUploading(t) ==
    /\ TaskAt(t, "downloaded")
    /\ Sends(t, UPLOADING)
    /\ GoesTo(t, "upload")
    /\ UNCHANGED <<error_occurred, failure, pc, beside_task>>

\* lines 470-473: upload_zip_contents or upload_single_file; what goes wrong
\* in them they log, and return False (505-507, 527-532), which is not read
Upload(t) ==
    /\ TaskAt(t, "upload")
    /\ \/ UNCHANGED failure
       \/ failure' = [failure EXCEPT ![t] = Some("upload")]
    /\ GoesTo(t, "finally")
    /\ UNCHANGED <<status_message, error_occurred, pc, beside_task>>

\* lines 475-482: the exception is logged and the status message edited to
\* 'Download Failed'
Except(t) ==
    /\ TaskAt(t, "except")
    /\ error_occurred' = [error_occurred EXCEPT ![t] = TRUE]
    /\ Sends(t, DOWNLOAD_FAILED)
    /\ GoesTo(t, "finally")
    /\ UNCHANGED <<failure, pc, beside_task>>

\* lines 483-487: after five seconds if there was an error, the status
\* message is deleted
Finally(t) ==
    /\ TaskAt(t, "finally")
    /\ Sends(t, DELETE_MESSAGE)
    /\ GoesTo(t, "done")
    /\ UNCHANGED <<error_occurred, failure, pc, beside_task>>

\* one await of the task
TaskStep(t) ==
    \/ EditDownloading(t)
    \/ Download(t)
    \/ EditUploading(t)
    \/ Upload(t)
    \/ Except(t)
    \/ Finally(t)

TaskNext == \E t \in TASKS : PrepareDownload(t) \/ TaskStep(t)

TaskSpec == TaskInit /\ [][TaskNext]_vars

\* the event loop runs every task that can go on
FairTaskSpec == TaskSpec /\ \A t \in TASKS : WF_vars(TaskStep(t))


(***************************************************************************)
(* Properties.                                                             *)
(***************************************************************************)
StoredOutcomes == {"new", "updated", "unchanged"}

Walking == {"while", "for"}

\* the keys of a dict are pairwise distinct
UniqueKeys(d) == \A i, j \in 1..Len(d) : d[i].key = d[j].key => i = j

\* C1: at every point of a run the catalog, in memory and as written to
\* db.json, holds at most one record per unique_id.
C1_OneRecordPerKey ==
    /\ UniqueKeys(final_db)
    /\ db_json # None => UniqueKeys(Unwrap(db_json))

\* a run on an empty catalog has met a unique_id it already stored
C1_Witness ==
    /\ run = 1 /\ db_json = None
    /\ pc = "for"
    /\ outcome \in {"updated", "unchanged"}
    /\ Len(final_db) >= 2

\* the details name no tt<digits> id: there is no IMDb link, or its href holds none
NamesNoId(details) ==
    \/ "imdbURL" \notin DOMAIN details
    \/ ~ \E i \in 1..Len(details.imdbURL) - 2 :
            /\ details.imdbURL[i] = "t"
            /\ details.imdbURL[i + 1] = "t"
            /\ details.imdbURL[i + 2] \in Digits

\* C2: no record without a tt<digits> id is ever in the store, and the step
\* that scrapes a detail page without one leaves final_db and the count of
\* added records as they were.
C2_NoIdNoMutation ==
    /\ [](\A i \in 1..Len(final_db) : ~NamesNoId(final_db[i].value))
    /\ [][(/\ pc = "for"
           /\ entry_idx' = entry_idx + 1
           /\ detail_url' = Some(Unwrap(list_soup).entries[entry_idx])
           /\ post_details' # None
           /\ NamesNoId(Unwrap(post_details')))
          => (/\ final_db' = final_db
              /\ newly_added_count' = newly_added_count
              /\ new_on_this_page' = new_on_this_page
              /\ files' = files)]_vars

\* a page without an id was scraped while the catalog held records
C2_Witness ==
    /\ pc = "for"
    /\ outcome = "no_imdb_id"
    /\ post_details # None /\ NamesNoId(Unwrap(post_details))
    /\ Len(final_db) >= 1

\* the key each detail page of the site resolves to
ExpectedKey ==
    ("a" :> <<"t", "t", "1">>) @@
    ("c" :> <<"t", "t", "2", "-", "S", "1">>) @@
    ("d" :> <<"t", "t", "2", "-", "S", "2">>) @@
    ("e" :> <<"t", "t", "3", "-", "S", "1">>)

\* C3: the key a scraped record is stored under is its external id, followed
\* by "-S" and the season number when the record is a series; it is the same
\* key every time the page is scraped.
C3_KeyFromIdAndSeason ==
    outcome \in StoredOutcomes =>
        LET details == Unwrap(post_details)
            external_id == Unwrap(extract_imdb_id(Some(details.imdbURL)))
        IN  /\ unique_id =
                  Some(IF details.is_series
                       THEN external_id \o <<"-", "S">>
                               \o IntToStr(Unwrap(details.season_number))
                       ELSE external_id)
            /\ unique_id = Some(ExpectedKey[Unwrap(detail_url)])
            /\ HasKey(final_db, Unwrap(unique_id))

\* the second season of the series was stored as a new record
C3_Witness ==
    /\ outcome = "new"
    /\ Unwrap(post_details).is_series
    /\ unique_id = Some(<<"t", "t", "2", "-", "S", "2">>)

\* C4 as claimed: after a page whose unique_id the catalog already held is
\* scraped, the held record carries the newly scraped value of every field.
C4_ExistingOverwritten ==
    outcome \in {"updated", "unchanged"} =>
        LET details == Unwrap(post_details)
            held == DictGet(final_db, Unwrap(unique_id))
        IN  \A f \in DOMAIN details : f \in DOMAIN held /\ held[f] = details[f]

\* C4: scraping a page whose unique_id the catalog already holds keeps the
\* keys and every other record as they are; in the held record only a field
\* of director, genre, msone_release, certification that was missing or null
\* takes the scraped value, and every field that had a value keeps it.
C4_ExistingOnlyFilled ==
    [][(/\ pc = "for"
        /\ entry_idx' = entry_idx + 1
        /\ outcome' \in StoredOutcomes
        /\ HasKey(final_db, Unwrap(unique_id')))
       => (LET uid == Unwrap(unique_id')
              details == Unwrap(post_details')
              old == DictGet(final_db, uid)
              new == DictGet(final_db', uid)
          IN  /\ Keys(final_db') = Keys(final_db)
              /\ \A i \in 1..Len(final_db) :
                    final_db[i].key # uid => final_db'[i] = final_db[i]
              /\ DOMAIN old \subseteq DOMAIN new
              /\ \A f \in DOMAIN old :
                    new[f] = IF /\ f \in UPDATE_FIELDS
                                /\ old[f] = None
                                /\ f \in DOMAIN details
                                /\ details[f] # None
                             THEN details[f] ELSE old[f]
              /\ \A f \in DOMAIN new \ DOMAIN old :
                    /\ f \in UPDATE_FIELDS
                    /\ f \in DOMAIN details
                    /\ details[f] # None
                    /\ new[f] = details[f]
              /\ \A f \in (UPDATE_FIELDS \cap DOMAIN details) \ DOMAIN old :
                    details[f] # None => f \in DOMAIN new)]_vars

\* a held record took a missing field from a page whose year it did not take
C4_Witness ==
    /\ outcome = "updated"
    /\ DictGet(final_db, Unwrap(unique_id)).year # Unwrap(post_details).year
    /\ "director" \in DOMAIN DictGet(final_db, Unwrap(unique_id))

\* C5: a run that follows a run on the same site ends with the catalog the
\* first one wrote: db.json equals the backup made of it, record for record.
C5_SecondRunSameCatalog ==
    (run >= 2 /\ pc = "done") =>
        /\ db_json = db_backup
        /\ db_json = Some(final_db)

\* a second run has ended on a catalog with a series and another record
C5_Witness ==
    /\ run = 2 /\ pc = "done"
    /\ Len(final_db) >= 2
    /\ \E i \in 1..Len(final_db) : "total_seasons" \in DOMAIN final_db[i].value

\* series_name as the grouping is to normalize it: trimmed, inner whitespace
\* collapsed, lower case
Normalized(name) == LowerStr(CollapseSpace(Strip(name)))

SeriesRecords(d) == {i \in 1..Len(d) : d[i].value.is_series}

\* the distinct season numbers among the records of d in the series of record i
SeasonsOfSeries(d, i) ==
    {Unwrap(d[j].value.season_number) : j \in
        {k \in SeriesRecords(d) :
            Normalized(Unwrap(d[k].value.series_name))
                = Normalized(Unwrap(d[i].value.series_name))}}

\* C6 as claimed: after the aggregation every series record's total_seasons
\* is the number of distinct season numbers among the records that share its
\* normalized series_name.
C6_TotalIsDistinctSeasons ==
    pc \in {"save", "done"} =>
        \A i \in SeriesRecords(final_db) :
            /\ "total_seasons" \in DOMAIN final_db[i].value
            /\ final_db[i].value.total_seasons
                  = Cardinality(SeasonsOfSeries(final_db, i))

\* C7 as claimed: after the aggregation two series records whose series_name
\* differ only in case or whitespace have the same total_seasons, and
\* series_db has one entry for their series.
C7_GroupingNormalized ==
    pc \in {"save", "done"} =>
        /\ \A i, j \in SeriesRecords(final_db) :
              Normalized(Unwrap(final_db[i].value.series_name))
                    = Normalized(Unwrap(final_db[j].value.series_name))
                 => final_db[i].value.total_seasons = final_db[j].value.total_seasons
        /\ \A k, l \in 1..Len(series_db) :
              Normalized(series_db[k].key) = Normalized(series_db[l].key) => k = l

\* total_seasons of the i-th record, None when it has none
TotalOf(d, i) ==
    IF "total_seasons" \in DOMAIN d[i].value
    THEN Some(d[i].value.total_seasons) ELSE None

\* C8: total_seasons is written by the aggregation step alone, which every
\* end of the listing walk leads to and which runs once: the walk never
\* changes a total_seasons nor stores a record with one, the walk ends in the
\* aggregation, the aggregation is followed by the save, and final_db is not
\* touched again in that run.
C8_AggregationOnceAfterWalk ==
    /\ [][(pc \in Walking) =>
            (/\ Len(final_db') >= Len(final_db)
             /\ \A i \in 1..Len(final_db) : TotalOf(final_db', i) = TotalOf(final_db, i)
             /\ \A i \in (Len(final_db) + 1)..Len(final_db') :
                   TotalOf(final_db', i) = None)]_vars
    /\ [][(pc \in Walking /\ pc' \notin Walking) => pc' = "post"]_vars
    /\ [][pc' = "post" => pc \in Walking]_vars
    /\ [][pc = "post" => pc' = "save"]_vars
    /\ [][(pc \in {"save", "done"}) => final_db' = final_db]_vars

\* the aggregation has counted two records of one series
C8_Witness ==
    /\ pc = "save"
    /\ \E i \in 1..Len(final_db) : TotalOf(final_db, i) = Some(2)

\* every fetch of the detail url fails or its extraction raises
DetailFails(url) ==
    \A doc \in DetailDocs(url) : doc = None \/ Unwrap(doc).imdb = Some(None)

\* a failed detail page is skipped and the for loop goes on
DetailFailureSkipped ==
    [][(/\ pc = "for" /\ entry_idx <= Len(Unwrap(list_soup).entries)
        /\ Unwrap(list_soup).entries[entry_idx] # NO_LINK
        /\ DetailFails(Unwrap(list_soup).entries[entry_idx]))
       => (/\ pc' = "for"
           /\ entry_idx' = entry_idx + 1
           /\ outcome' = "no_details"
           /\ post_details' = None
           /\ list_soup' = list_soup
           /\ page_num' = page_num
           /\ final_db' = final_db)]_vars

ListingFails ==
    /\ pc = "while"
    /\ page_num <= MAX_PAGE_TO_CHECK
    /\ ListingDoc(current_page_url) = None

\* C9 as claimed: a failed fetch is skipped and the walk goes on, after a
\* failed detail page and after a failed listing page alike.
C9_FailureNeverEndsWalk ==
    /\ DetailFailureSkipped
    /\ [][ListingFails => pc' \in Walking]_vars

\* C9: a failed detail page is skipped and the run goes on with the next
\* entry of the listing page; a failed listing page ends the listing walk
\* with the catalog as it was, and the run still aggregates and saves.
C9_FailureSkipsOrEndsWalk ==
    /\ DetailFailureSkipped
    /\ [][ListingFails => pc' = "post" /\ final_db' = final_db]_vars
    /\ [][pc = "post" => pc' = "save"]_vars
    /\ [][pc = "save" => pc' = "done" /\ db_json' = Some(final_db)]_vars

\* a run whose last detail page and whose next listing page both failed has
\* saved the records it had stored
C9_Witness ==
    /\ pc = "done"
    /\ outcome = "no_details"
    /\ list_soup = None
    /\ Len(final_db) >= 1
    /\ db_json = Some(final_db)

\* C10: every run that starts ends, on every site, one whose next links form
\* a cycle included.
C10_RunTerminates == (pc = "start") ~> (pc = "done")

\* a run over a site whose last listing page links back to the first has ended
C10_Witness ==
    /\ pc = "done"
    /\ tail = "loop"
    /\ MAX_PAGES = HighCeiling
    /\ page_num > START_PAGE + 5

(***************************************************************************)
(* The listing walk.                                                       *)
(***************************************************************************)
\* the page-count ceiling is reached
CeilingReached == pc = "while" /\ page_num > MAX_PAGE_TO_CHECK

\* the listing page asked for yields no entries
ZeroEntries ==
    /\ pc = "while" /\ page_num <= MAX_PAGE_TO_CHECK
    /\ ListingDoc(current_page_url) # None
    /\ Unwrap(ListingDoc(current_page_url)).entries = <<>>

\* the listing page just walked has no next link
NoNextLink == ForLoopDone /\ Unwrap(list_soup).next = None

\* the early-stop heuristic fires on the listing page just walked
EarlyStopFires == ForLoopDone /\ StopsEarly

\* the four stop conditions of the claim
ClaimedStop == ZeroEntries \/ NoNextLink \/ CeilingReached \/ EarlyStopFires

WalkEnds == pc \in Walking /\ pc' \notin Walking

\* the ceiling holds and nothing is fetched once the walk has stopped
FetchesBounded ==
    /\ [](listing_fetches <= MAX_PAGES)
    /\ [][(pc \in {"post", "save", "done"}) =>
            listing_fetches' = listing_fetches]_vars

\* C11 as claimed: the walk stops exactly when a listing page has no
\* entries, has no next link, the ceiling is reached or the early stop fires.
C11_StopsOnFourConditions ==
    /\ [][WalkEnds => ClaimedStop]_vars
    /\ [][ClaimedStop => pc' = "post"]_vars
    /\ FetchesBounded

\* C11: the walk stops exactly when a listing page cannot be fetched, has
\* no entries, has no next link, the ceiling is reached or the early stop
\* fires; at most MAX_PAGES listing pages are asked for in a run, and none
\* after the walk has stopped.
C11_StopsOnFiveConditions ==
    /\ [][WalkEnds => (ClaimedStop \/ ListingFails)]_vars
    /\ [][(ClaimedStop \/ ListingFails) => pc' = "post"]_vars
    /\ FetchesBounded

\* the walk has stopped at a second listing page that could not be fetched
C11_Witness ==
    /\ pc = "post"
    /\ list_soup = None
    /\ listing_fetches = 2
    /\ Len(final_db) >= 1

\* the listing page just walked is beyond the first six
BeyondFirstPages == ForLoopDone /\ page_num > 6

NoFetchFailure ==
    /\ tail # "fail"
    /\ \A i \in 1..Len(feed) : feed[i] = NO_LINK \/ ~DetailFails(feed[i])

\* C13 as claimed: a first run on an empty catalog, with no fetch failure
\* and a ceiling of at least the number of listing pages, walks every
\* listing page the next links lead to.
C13_ColdRunWalksAll ==
    (/\ pc = "post" /\ run = 1
     /\ db_json = None
     /\ tail = "end"
     /\ NoFetchFailure
     /\ MAX_PAGE_TO_CHECK >= NPages)
    => (/\ listing_fetches = NPages
        /\ list_soup = ListingDoc(NPages))


\* the call of get_soup is over
Called == pc \in {"returned", "raised"} /\ responses # <<>>

\* a timeout, a connection error or a 5xx response
Transient(answer) ==
    \/ answer.error \in {"Timeout", "ConnectionError"}
    \/ answer.error = "" /\ answer.status >= 500 /\ answer.status < 600

\* a response with a 2xx status
Successful(answer) == answer.error = "" /\ answer.status >= 200 /\ answer.status < 300

\* C14 as claimed: a url is reported as failed only after 3 attempts, and a
\* url that succeeds on its second or third attempt, after transient
\* failures, yields a document.
C14_FailsAfterThreeAttempts ==
    Called =>
        /\ soup_returned = None => requests_made = 3
        /\ \A i \in 2..3 :
              (Successful(responses[i]) /\ \A j \in 1..(i - 1) : Transient(responses[j]))
                  => soup_returned = Some(BeautifulSoup(responses[i].content))

\* C14, amended: get_soup sends exactly one request for a call, and a url
\* whose one attempt ends in a transient failure is reported as failed
\* (None) after that attempt, whatever a later attempt would give.
C14_FailsAfterOneAttempt ==
    Called =>
        /\ requests_made = 1
        /\ Transient(responses[1]) => soup_returned = None

C14_Witness ==
    /\ pc = "returned"
    /\ responses # <<>>
    /\ responses[1].error = "Timeout"
    /\ Successful(responses[2])
    /\ requests_made = 1
    /\ soup_returned = None

Untitled(url) == \A doc \in DetailDocs(url) : doc # None /\ Unwrap(doc).h1 = None

\* the last iteration of the for loop went as far as scrape_detail_page
DetailScraped == outcome \in StoredOutcomes \cup {"no_imdb_id", "no_details"}

\* C16 as claimed: a detail page without a title element yields no details,
\* and no record derived from such a page is in the catalog.
C16_UntitledPageSkipped ==
    /\ post_details # None => Unwrap(post_details).title # UNKNOWN_TITLE
    /\ \A i \in 1..Len(final_db) : final_db[i].value.title # UNKNOWN_TITLE

\* C16, amended: a detail page without a title element yields details with
\* the title "Unknown Title", no year and no season; they are rejected when
\* they name no IMDb id and stored under the IMDb id when they name one.
C16_UntitledPageKeyedLikeAny ==
    /\ \A url \in DetailUrls :
          (detail_url = Some(url) /\ Untitled(url) /\ DetailScraped)
              => /\ post_details # None
                 /\ Unwrap(post_details).title = UNKNOWN_TITLE
    /\ (DetailScraped /\ post_details # None
            /\ Unwrap(post_details).title = UNKNOWN_TITLE)
          => LET details == Unwrap(post_details)
                 imdb_id == extract_imdb_id(ImdbUrlOf(details))
             IN  /\ details.year = None
                 /\ details.is_series = FALSE
                 /\ details.season_number = None
                 /\ imdb_id = None =>
                       /\ outcome = "no_imdb_id"
                       /\ \A i \in 1..Len(final_db) :
                             final_db[i].value.source_url # details.source_url
                 /\ imdb_id # None =>
                       /\ outcome \in StoredOutcomes
                       /\ unique_id = imdb_id
                       /\ HasKey(final_db, Unwrap(imdb_id))
                       /\ DictGet(final_db, Unwrap(imdb_id)).title = UNKNOWN_TITLE
                       /\ DictGet(final_db, Unwrap(imdb_id)).source_url = details.source_url

C16_Witness ==
    /\ detail_url = Some("h")
    /\ outcome = "new"
    /\ HasKey(final_db, <<"t", "t", "4">>)
    /\ DictGet(final_db, <<"t", "t", "4">>).title = UNKNOWN_TITLE
    /\ DictGet(final_db, <<"t", "t", "4">>).source_url = "h"

\* one of the four season-number patterns matches in the title
PatternMatches(title) == \E p \in 1..4 : PatternSearch(p, title) # <<>>

\* the first pattern of the list that matches
FirstPattern(title) == Min({p \in 1..4 : PatternSearch(p, title) # <<>>})

\* where the leftmost match of pattern p begins: the season marker
MarkerAt(p, title) == Min({i \in 1..Len(title) : PatternAt(p, title, i) # <<>>})

\* the title before the season marker, trimmed
PrefixBeforeMarker(title) ==
    Strip(SubSeq(title, 1, MarkerAt(FirstPattern(title), title) - 1))

\* C17: for a title in which a season-number pattern matches,
\* extract_season_info gives is_series true, the captured number as
\* season_number, and the trimmed title before the season marker as
\* series_name.
C17_SeriesNameIsPrefix ==
    (pc = "extracted" /\ PatternMatches(given_title))
        => season_info =
              Some([is_series |-> TRUE,
                    season_number |->
                        Some(ParseInt(PatternSearch(FirstPattern(given_title), given_title))),
                    series_name |-> Some(PrefixBeforeMarker(given_title))])

\* what C17 says of is_series and season_number alone
SeasonNumberCaptured ==
    (pc = "extracted" /\ PatternMatches(given_title))
        => /\ Unwrap(season_info).is_series = TRUE
           /\ Unwrap(season_info).season_number =
                 Some(ParseInt(PatternSearch(FirstPattern(given_title), given_title)))

\* the title holds one of the four series keywords, in any case
KeywordIn(title) ==
    \E w \in {SEASON, SERIES, <<ML_SEASON>>, <<ML_SEASON_ALT>>} :
        Contains(LowerStr(title), w)

\* C18: for a title in which no season-number pattern matches, a title
\* with a series keyword is a series of season 1 whose series_name is the
\* whole title, and any other title is no series and has null season
\* fields; is_series, a non-null season_number and a non-null series_name
\* always go together.
C18_KeywordOrNoSeries ==
    pc = "extracted" =>
        LET info == Unwrap(season_info)
        IN  /\ ~PatternMatches(given_title) =>
                  IF KeywordIn(given_title)
                  THEN info = [is_series |-> TRUE, season_number |-> Some(1),
                               series_name |-> Some(given_title)]
                  ELSE info = [is_series |-> FALSE, season_number |-> None,
                               series_name |-> None]
            /\ info.is_series = TRUE <=> info.season_number # None
            /\ info.season_number # None <=> info.series_name # None

C18_Witness ==
    /\ pc = "extracted"
    /\ given_title = <<"A", "b", " ", "s", "e", "r", "i", "e", "s">>
    /\ season_info = Some([is_series |-> TRUE, season_number |-> Some(1),
                           series_name |-> Some(given_title)])

\* what C18 concludes for the catalog: the season fields of every stored
\* record go together
StoredSeasonFieldsConsistent ==
    \A i \in 1..Len(final_db) :
        /\ final_db[i].value.is_series = TRUE <=> final_db[i].value.season_number # None
        /\ final_db[i].value.season_number # None <=> final_db[i].value.series_name # None

\* db.json and its kind stay as they are
DbFileKept == db_json' = db_json /\ db_file' = db_file

\* C19 as claimed: with a db.json that cannot be opened or does not parse,
\* no listing or detail page is fetched and db.json is not replaced.
C19_UnreadableDbAborts ==
    /\ [](db_file \in {"corrupt", "unreadable"} => (listing_fetches = 0 /\ detail_url = None))
    /\ [][(db_file \in {"corrupt", "unreadable"}) => DbFileKept]_vars

\* the error of open() ends the run before any fetch
AbortedAtLoad == pc \in {"start", "raised"} /\ listing_fetches = 0 /\ detail_url = None

\* a db.json that does not parse is loaded as the empty catalog
LoadedEmpty == (db_file = "corrupt" /\ pc = "start") => (pc' = "while" /\ final_db' = <<>>)

\* the save step moves a db.json that does not parse to the backup
SavedOverUnparsed ==
    (db_file = "corrupt" /\ pc = "save")
        => (db_backup' = db_json /\ db_json' = Some(final_db) /\ db_file' = "json")

\* C19, amended: with a db.json that cannot be opened the run ends in the
\* error before any fetch and leaves the files alone; with a db.json that
\* does not parse the run starts from an empty catalog, and its save step
\* moves the old file to the backup and writes the new catalog.
C19_OnlyUnopenableDbAborts ==
    /\ [](db_file = "unreadable" => AbortedAtLoad)
    /\ [][(db_file = "unreadable") => UNCHANGED <<files, db_file>>]_vars
    /\ [][LoadedEmpty]_vars
    /\ [][SavedOverUnparsed]_vars

C19_Witness ==
    /\ pc = "save"
    /\ db_file = "corrupt"
    /\ db_json = Some(PriorDb)
    /\ listing_fetches >= 7
    /\ Len(final_db) >= 1

\* an iteration of the for loop
EntryStep == pc = "for" /\ entry_idx' = entry_idx + 1

\* the count of added records moves for a new record alone, and a page
\* without IMDb id moves neither counter of main()
AddedCountsNewOnly ==
    EntryStep =>
        /\ outcome' = "updated" => newly_added_count' = newly_added_count
        /\ outcome' = "new" => newly_added_count' = newly_added_count + 1
        /\ outcome' = "no_imdb_id" =>
              /\ newly_added_count' = newly_added_count
              /\ new_on_this_page' = new_on_this_page

\* C20: a detail page without IMDb link is counted as a rejection and as
\* nothing else, and an update of a record the catalog holds is never
\* counted as an added record.
C20_UpdateNotCountedAsAdded == [][AddedCountsNewOnly]_vars

\* the unique_ids of a catalog
KeySet(d) == {d[i].key : i \in 1..Len(d)}

\* the unique_ids of a catalog file, none when there is no file
FileKeys(file) == IF file = None THEN {} ELSE KeySet(Unwrap(file))

\* C21: no record is ever deleted: from the load to the save the catalog
\* holds every unique_id of the db.json it was loaded from, and the db.json
\* written holds every unique_id of the file it replaces.
C21_NeverDeletes ==
    /\ pc \in {"while", "for", "post", "save"} => FileKeys(db_json) \subseteq KeySet(final_db)
    /\ pc = "done" =>
          /\ FileKeys(db_backup) \subseteq FileKeys(db_json)
          /\ FileKeys(db_json) = KeySet(final_db)

C21_Witness ==
    /\ pc = "done"
    /\ run = 1
    /\ db_backup = Some(PriorDb)
    /\ outcome = "no_details"
    /\ list_soup = None
    /\ Len(Unwrap(db_json)) > Len(PriorDb)

\* an iteration of the for loop that fetches a detail page
DetailFetch == pc = "for" /\ entry_idx' = entry_idx + 1 /\ outcome' # "no_link"

\* an iteration of the while loop that fetches a listing page
ListingFetch == pc = "while" /\ listing_fetches' = listing_fetches + 1

\* a detail page fetched before has been followed by a sleep, and a listing
\* page fetched before by the larger sleep
DelayedFetch ==
    /\ (DetailFetch /\ slept_since_detail # None) => Unwrap(slept_since_detail) # {}
    /\ (ListingFetch /\ slept_since_listing # None) => PAGE_DELAY \in Unwrap(slept_since_listing)

\* C22: between two consecutive detail-page fetches of a run there is a
\* delay, and between two consecutive listing-page fetches the larger
\* delay, also after a detail page that failed to fetch or was rejected.
C22_DelayBetweenFetches == [][DelayedFetch]_vars

\* what C22 says of the listing pages alone
ListingFetchDelayed ==
    [][(ListingFetch /\ slept_since_listing # None)
           => (PAGE_DELAY \in Unwrap(slept_since_listing) /\ PAGE_DELAY > ENTRY_DELAY)]_vars

\* what C22 says of a detail page fetched after one that was stored
DetailFetchDelayedAfterStored ==
    [][(DetailFetch /\ outcome \in StoredOutcomes /\ slept_since_detail # None)
           => Unwrap(slept_since_detail) # {}]_vars

\* no process is between its load and its save
NoneRunning == proc_pc # <<>> /\ \A p \in Procs : proc_pc[p] \in {"start", "done"}

\* C23: in every serialized execution of two runs db.json holds every
\* record a run inserted, once no run is in progress; run side by side, a
\* record inserted by one run can be missing from the final db.json.
C23_SerializedRunsKeepRecords ==
    (NoneRunning /\ ~overlapped) => inserted \subseteq FileKeys(shared_files.db_json)

\* both runs are over, they overlapped, and db.json lacks a record that one
\* of them inserted
C23_Witness ==
    /\ proc_pc # <<>>
    /\ \A p \in Procs : proc_pc[p] = "done"
    /\ overlapped
    /\ \E uid \in inserted : uid \notin FileKeys(shared_files.db_json)

\* the season number a button of the selector shows
ButtonNumber(button) == ParseInt(Tail(button.text))

\* C24: the season selector lists its season buttons in ascending numeric
\* order of the season, and the Close button after them.
C24_SeasonsInNumericOrder ==
    (pc = "replied" /\ reply_markup # None) =>
        LET keyboard == Unwrap(reply_markup)
        IN  /\ keyboard[Len(keyboard)] = CLOSE_BUTTON
            /\ \A i \in 1..(Len(keyboard) - 2) :
                  ButtonNumber(keyboard[i]) < ButtonNumber(keyboard[i + 1])

\* what C24 says of the Close button and of the buttons' number alone
CloseButtonLast ==
    (pc = "replied" /\ reply_markup # None) =>
        LET keyboard == Unwrap(reply_markup)
        IN  /\ keyboard[Len(keyboard)] = CLOSE_BUTTON
            /\ Len(keyboard) = Len(seasons_for_this_series) + 1
            /\ \A i \in 1..(Len(keyboard) - 1) : keyboard[i] # CLOSE_BUTTON

\* the results that are seasons of the most relevant result's series
OfShownSeries(i) ==
    /\ results[i].entry.is_series
    /\ LowerStr(get_base_series_name(results[i].entry.title))
          = LowerStr(get_base_series_name(results[1].entry.title))

\* C27: the selector maps a season that several results of the series
\* share to the first of them in the relevance order.
C27_FirstResultOfSeasonKept ==
    (pc = "replied" /\ results # <<>> /\ results[1].entry.is_series) =>
        \A i \in 1..Len(results) :
            (/\ OfShownSeries(i)
             /\ \A j \in 1..(i - 1) :
                   ~(OfShownSeries(j)
                        /\ results[j].entry.season_number = results[i].entry.season_number))
                => LET key == StrKey(IntToStr(Unwrap(results[i].entry.season_number)))
                   IN  /\ PyIn(key, seasons_for_this_series)
                       /\ PyGet(seasons_for_this_series, key) = results[i].imdb_id

\* what C27 says of the seasons the selector holds alone
EverySeasonOfSeriesMapped ==
    (pc = "replied" /\ results # <<>> /\ results[1].entry.is_series) =>
        \A i \in 1..Len(results) :
            OfShownSeries(i) =>
                PyIn(StrKey(IntToStr(Unwrap(results[i].entry.season_number))),
                     seasons_for_this_series)

\* the post-processing of the run is over
PostProcessed == pc \in {"save", "done"}

\* every unique_id series_db maps is a key of the catalog, of a series
\* record with the series' name and the season number it is mapped under
SeriesIndexPointsAtMembers ==
    PostProcessed =>
        \A i \in 1..Len(series_db) : \A j \in 1..Len(series_db[i].value) :
            LET uid == series_db[i].value[j].value
            IN  /\ HasKey(final_db, uid)
                /\ DictGet(final_db, uid).is_series = TRUE
                /\ DictGet(final_db, uid).series_name = Some(series_db[i].key)
                /\ SeasonKey(DictGet(final_db, uid)) = series_db[i].value[j].key

\* the seasons series_db lists for a series are as many as the
\* total_seasons of each record of that series
SeasonEntriesMatchTotals ==
    PostProcessed =>
        \A i \in 1..Len(series_db) : \A n \in 1..Len(final_db) :
            (IsGrouped(final_db[n].value)
                /\ final_db[n].value.series_name = Some(series_db[i].key))
                => /\ "total_seasons" \in DOMAIN final_db[n].value
                   /\ final_db[n].value.total_seasons = Len(series_db[i].value)

\* C25: after the post-processing series_db and the catalog agree: each
\* unique_id mapped for a series is a key of the catalog whose record is a
\* series of that name and season, and the series has as many season
\* entries as the total_seasons of each of its records.
C25_SeriesIndexAgrees == SeriesIndexPointsAtMembers /\ SeasonEntriesMatchTotals

\* a file of the directory holds a whole catalog
HoldsCatalog(filename) == disk[filename] # None /\ Unwrap(disk[filename]).complete

\* C26: at every point of the save step of a run that found a db.json, one
\* of db.json and db.json.backup holds a complete catalog, also when the
\* rename to the backup or the write of the new file fails.
C26_CompleteCatalogOnDisk ==
    disk # <<>> => (HoldsCatalog("db.json") \/ HoldsCatalog("db.json.backup"))

\* what C26 says of the save steps in which os.rename of db.json works
CompleteCatalogUnlessRenameFailed ==
    (disk # <<>> /\ ~rename_failed) => (HoldsCatalog("db.json") \/ HoldsCatalog("db.json.backup"))

\* the last handle_search answered that the user has to wait
Rejected(r) == r # None /\ Unwrap(r).text = "Please wait"

\* fewer than RATE_LIMIT_SECONDS passed between the last admitted request
\* of the user and the time at
WithinLimit(admitted, user_id, at) ==
    admitted[user_id] # None /\ at - Unwrap(admitted[user_id]) < RATE_LIMIT_SECONDS

\* C28: a request of a user is limited exactly if fewer than
\* RATE_LIMIT_SECONDS passed since that user's last admitted request; a
\* rejected request leaves the user's stored time alone, and a request
\* never changes the stored time of another user.
C28_LimitedSinceLastAdmitted ==
    [][\A user_id \in USERS :
          (reply' # reply /\ reply' # None /\ Unwrap(reply').user = user_id /\ now' = now) =>
              /\ Rejected(reply') = WithinLimit(last_admitted, user_id, now)
              /\ Rejected(reply') => user_last_request'[user_id] = user_last_request[user_id]
              /\ \A other \in USERS \ {user_id} :
                    user_last_request'[other] = user_last_request[other]]_vars

\* a user is rejected a second after its last admitted request, while the
\* other user, admitted earlier, would be admitted
C28_Witness ==
    /\ reply # None
    /\ Rejected(reply)
    /\ Unwrap(reply).at = Unwrap(last_admitted[Unwrap(reply).user]) + 1
    /\ \E other \in USERS \ {Unwrap(reply).user} :
          last_admitted[other] # None /\ ~WithinLimit(last_admitted, other, now)

\* a bot token and a non-empty WEBHOOK_SECRET are configured
SecretConfigured == env # <<>> /\ env.TOKEN # None /\ env.WEBHOOK_SECRET # ""

\* C29: with a token and a non-empty WEBHOOK_SECRET, a request whose secret
\* header is missing or differs is answered 403 and changes neither
\* tracked_users nor what was sent; a request is processed only with the
\* header equal to WEBHOOK_SECRET.
C29_OnlyWithSecret ==
    [][SecretConfigured =>
          /\ (Unwrap(http_response').secret # env.WEBHOOK_SECRET) =>
                /\ Unwrap(http_response').status = 403
                /\ tracked_users' = tracked_users
                /\ sent' = sent
          /\ (tracked_users' # tracked_users \/ sent' # sent \/ Unwrap(http_response').status = 200) =>
                Unwrap(http_response').secret = env.WEBHOOK_SECRET]_vars

\* a request without the right secret was answered 403 by a service that
\* had tracked a user and sent a message for a request with it
C29_Witness ==
    /\ SecretConfigured
    /\ http_response # None
    /\ Unwrap(http_response).status = 403
    /\ Unwrap(http_response).secret = ""
    /\ tracked_users # {}
    /\ sent # <<>>

\* the places of what in the sequence sent for a status message
PlacesOf(sends, what) == {i \in 1..Len(sends) : sends[i] = what}

Deleted(t) == PlacesOf(status_message[t], DELETE_MESSAGE) # {}

DeletedOnce(t) == Cardinality(PlacesOf(status_message[t], DELETE_MESSAGE)) <= 1

\* the deletion of the status message comes after a 'Download Failed' edit
FailureShownBeforeDeletion(t) ==
    \A d \in PlacesOf(status_message[t], DELETE_MESSAGE) :
        \E e \in PlacesOf(status_message[t], DOWNLOAD_FAILED) : e < d

\* every task that was created deletes its status message, and once
EveryTaskDeletesOnce ==
    /\ \A t \in TASKS : (task_pc # <<>> /\ task_pc[t] = "created") ~> Deleted(t)
    /\ [](task_pc # <<>> => \A t \in TASKS : DeletedOnce(t))

\* a task in which the download went wrong shows 'Download Failed' before
\* it deletes its status message
DownloadErrorShown ==
    [](task_pc # <<>> =>
          \A t \in TASKS : failure[t] = Some("download") => FailureShownBeforeDeletion(t))

\* C30: every download task that was started deletes its status message in
\* the end, whether it succeeds or the download or the upload fails; after
\* a failure the 'Download Failed' edit comes before the deletion; and the
\* deletion is sent once.
C30_StatusMessageDeleted ==
    /\ \A t \in TASKS : (task_pc # <<>> /\ task_pc[t] = "created") ~> Deleted(t)
    /\ [](task_pc # <<>> =>
             \A t \in TASKS :
                 /\ DeletedOnce(t)
                 /\ failure[t] # None => FailureShownBeforeDeletion(t))
====
